---------------------------- MODULE Spec2Model ----------------------------
(***************************************************************************)
(* A model of the conversation persistence and generation orchestration   *)
(* of gobananas:                                                           *)
(*   - generateImageFromConversation (services/geminiService.ts): one      *)
(*     provider call and its single retry on a context-limit error;        *)
(*   - ConversationStorage (services/conversationStorage.ts) over the      *)
(*     HTTP backend of FileSystemStorage and the storage server            *)
(*     (server.js): threads in the SQLite table, assets as files;          *)
(*   - the send, rerun and fork handlers of the chat component             *)
(*     (components/Generator.tsx), one step per suspension point;          *)
(*   - extractImageData and getBlockMessage (services/geminiService.ts):   *)
(*     what a provider response becomes;                                   *)
(*   - migrateOldGenerations (services/conversationStorage.ts).            *)
(*   - the File System Access backend of FileSystemStorage                 *)
(*     (services/fileSystemStorage.ts), next to the HTTP backend;          *)
(*   - the selection and the deletion of a thread in the chat component.   *)
(* The specifications share the variables: SpecGen (the orchestrator       *)
(* against a provider that fails or succeeds), SpecResp (the orchestrator  *)
(* against a provider that answers with responses), SpecStore (the storage *)
(* API called by one client, one call at a time), SpecAssets (the image    *)
(* files of the storage server), SpecFormat (the request built from a      *)
(* history), SpecBackends (the same calls on both storage backends),       *)
(* SpecApp (the chat component with overlapping handlers), SpecSession     *)
(* (SpecApp with the sidebar in use and failing storage calls) and         *)
(* SpecSwitch (one send or rerun while the user switches threads; its fair *)
(* form is SpecSwitchFair).                                                *)
(***************************************************************************)
EXTENDS Integers, Sequences, FiniteSets, TLC

VARIABLES
    \* ---- generateImageFromConversation (SpecGen)
    messages,       \* the history handed to generateImageFromConversation (message ids)
    apiKey,         \* whether localStorage holds 'gemini-api-key'
    provider,       \* the provider's behaviour: [mode, K]
    calls,          \* the provider calls made, in order: [history, outcome]
    genPc,          \* "first" | "retry" | "done"
    result,         \* what the invocation returned or threw
    \* ---- storage server and its files (SpecStore, SpecApp)
    db,             \* the rows of table threads, in insertion order
    files,          \* the files under the storage root
    generations,    \* the legacy generation records (generations.json)
    local,          \* the folder of the File System Access backend: [files, doc]
    call,           \* SpecStore: the last ConversationStorage call and its result
    opCount,        \* SpecStore: calls made so far
    \* ---- chat component (SpecApp)
    currentThread,          \* React state currentThread (NullThread when null)
    generatingThreadIds,    \* React state generatingThreadIds
    messageInput,           \* whether the composer holds text
    attachedImages,         \* React state attachedImages: the files attached in the composer
    error,                  \* React state error ("" when null)
    keyReset,               \* whether onResetKey has been called
    handler,                \* per handler slot: position and captured values
    nextId,                 \* createId: the next fresh id
    now                     \* Date.now()

vars == <<messages, apiKey, provider, calls, genPc, result,
          db, files, generations, local, call, opCount,
          currentThread, generatingThreadIds, messageInput, attachedImages, error, keyReset,
          handler, nextId, now>>

genVars == <<messages, apiKey, provider, calls, genPc, result>>
storeVars == <<db, files, generations, local, call, opCount>>
appVars == <<currentThread, generatingThreadIds, messageInput, attachedImages, error, keyReset,
             handler, nextId, now>>

-----------------------------------------------------------------------------
(* Bounds of the model. *)

\* longest history handed to the orchestrator
MaxMessages == 6
\* largest provider limit K
MaxK == 3

-----------------------------------------------------------------------------
(* Strings are sequences of one-character strings, so that toLowerCase and *)
(* includes are computed, not assumed.                                     *)

UpperChars == <<"A","B","C","D","E","F","G","H","I","J","K","L","M",
                "N","O","P","Q","R","S","T","U","V","W","X","Y","Z">>
LowerChars == <<"a","b","c","d","e","f","g","h","i","j","k","l","m",
                "n","o","p","q","r","s","t","u","v","w","x","y","z">>

LowerChar(c) ==
    IF \E i \in 1..26 : UpperChars[i] = c
    THEN LowerChars[CHOOSE i \in 1..26 : UpperChars[i] = c]
    ELSE c

toLowerCase(s) == [i \in 1..Len(s) |-> LowerChar(s[i])]

includes(s, sub) ==
    \E i \in 1..(Len(s) - Len(sub) + 1) : SubSeq(s, i, i + Len(sub) - 1) = sub

StrToken == <<"t","o","k","e","n">>
StrContext == <<"c","o","n","t","e","x","t">>

\* messages of errors the provider call can end with
MsgTokenLimit == <<"T","o","k","e","n"," ","l","i","m","i","t">>
MsgContextLong == <<"c","o","n","t","e","x","t"," ","t","o","o"," ","l","o","n","g">>
MsgKeyInvalid == <<"A","P","I"," ","k","e","y"," ","n","o","t"," ","v","a","l","i","d">>
MsgNetwork == <<"f","e","t","c","h"," ","f","a","i","l","e","d">>
MsgNoImage == <<"M","o","d","e","l"," ","d","i","d"," ","n","o","t"," ",
                "r","e","t","u","r","n"," ","i","m","a","g","e"," ","d","a","t","a">>
MsgApiKeyError == <<"A","P","I","_","K","E","Y","_","I","N","V","A","L","I","D">>
MsgEntityNotFound ==
    <<"R","e","q","u","e","s","t","e","d"," ","e","n","t","i","t","y"," ","w","a","s"," ","n",
      "o","t"," ","f","o","u","n","d">>

ErrorMessages ==
    {MsgTokenLimit, MsgContextLong, MsgKeyInvalid, MsgEntityNotFound, MsgNetwork, MsgNoImage}

-----------------------------------------------------------------------------
(* generateImageFromConversation                                           *)

\* geminiService.ts 65-68
isContextLimitError(err) ==
    \/ includes(toLowerCase(err.message), StrToken)
    \/ includes(toLowerCase(err.message), StrContext)

\* Array.prototype.slice(start): the elements from index start (0-based) on
slice(s, start) == SubSeq(s, start + 1, Len(s))

\* geminiService.ts 273: Math.floor(messages.length / 2)
midpointMutant(msgs) == (Len(msgs) + 1) \div 2
midpoint(msgs) == Len(msgs) \div 2

\* geminiService.ts 274
truncatedMutant(msgs) == SubSeq(msgs, 1, Len(msgs) - midpoint(msgs))
truncated(msgs) == slice(msgs, midpoint(msgs))

-----------------------------------------------------------------------------
(* The provider's response and what extractImageData makes of it           *)

toUpperChar(c) ==
    IF \E i \in 1..26 : LowerChars[i] = c
    THEN UpperChars[CHOOSE i \in 1..26 : LowerChars[i] = c]
    ELSE c

toUpperCase(s) == [i \in 1..Len(s) |-> toUpperChar(s[i])]

\* String.prototype.replace(/_/g, ' ')
replaceUnderscores(s) == [i \in 1..Len(s) |-> IF s[i] = "_" THEN " " ELSE s[i]]

\* Array.prototype.join(', ')
RECURSIVE join(_)
join(ss) ==
    IF ss = <<>> THEN <<>>
    ELSE IF Len(ss) = 1 THEN ss[1]
    ELSE ss[1] \o <<",", " ">> \o join(Tail(ss))

\* [...new Set(items)]: the first occurrence of each item, in order
RECURSIVE unique(_)
unique(ss) ==
    IF ss = <<>> THEN <<>>
    ELSE LET front == unique(SubSeq(ss, 1, Len(ss) - 1))
             last == ss[Len(ss)]
         IN IF \E i \in 1..Len(front) : front[i] = last THEN front ELSE Append(front, last)

\* block reasons, finish reasons and safety categories of the provider; the
\* empty string stands for undefined
ReasonUnspecified ==
    <<"B","L","O","C","K","_","R","E","A","S","O","N","_","U","N","S","P","E","C","I","F","I",
      "E","D">>
ReasonSafety == <<"S","A","F","E","T","Y">>
ReasonOther == <<"O","T","H","E","R">>
ReasonProhibited == <<"P","R","O","H","I","B","I","T","E","D","_","C","O","N","T","E","N","T">>
FinishStop == <<"S","T","O","P">>
FinishStopLower == <<"s","t","o","p">>
FinishMaxTokens == <<"M","A","X","_","T","O","K","E","N","S">>
FinishRecitation == <<"R","E","C","I","T","A","T","I","O","N">>
CategoryHarassment ==
    <<"H","A","R","M","_","C","A","T","E","G","O","R","Y","_","H","A","R","A","S","S","M","E",
      "N","T">>
CategoryDangerous ==
    <<"H","A","R","M","_","C","A","T","E","G","O","R","Y","_","D","A","N","G","E","R","O","U",
      "S","_","C","O","N","T","E","N","T">>
StrBlockedSafety ==
    <<"b","l","o","c","k","e","d"," ","b","y"," ","G","e","m","i","n","i"," ","s","a","f","e",
      "t","y"," ","f","i","l","t","e","r","s">>
StrBlockedOther ==
    <<"b","l","o","c","k","e","d"," ","b","y"," ","G","e","m","i","n","i"," ","f","o","r"," ",
      "a","n"," ","u","n","s","p","e","c","i","f","i","e","d"," ","p","o","l","i","c","y"," ",
      "r","e","a","s","o","n">>
StrBlockedPrefix == <<"b","l","o","c","k","e","d",":"," ">>
StrBlockedBase ==
    <<"m","o","d","e","l"," ","r","e","s","p","o","n","s","e"," ","b","l","o","c","k","e","d",
      " ","b","y"," ","G","e","m","i","n","i">>
StrPleaseAdjust ==
    <<"."," ","P","l","e","a","s","e"," ","a","d","j","u","s","t"," ","t","h","e"," ","p","r",
      "o","m","p","t"," ","o","r"," ","r","e","m","o","v","e"," ","s","e","n","s","i","t","i",
      "v","e"," ","c","o","n","t","e","n","t",".">>

\* mime types, as the pair of their two halves
Png == <<"image", "png">>
Jpeg == <<"image", "jpeg">>

\* a part of the response's first candidate: text ("" when absent), the thought
\* flag, the thought signature ("" when absent), inline image data or none
ResponsePart(text, thought, signature, data) ==
    [text |-> text, thought |-> thought, signature |-> signature, data |-> data,
     mimeType |-> Png]

\* a response: promptFeedback (present or not, its blockReason and the
\* categories of its safetyRatings), and the first candidate's finishReason,
\* safetyRatings categories and content parts
Response(promptFeedback, blockReason, promptCategories, finishReason, candidateCategories, parts) ==
    [promptFeedback |-> promptFeedback, blockReason |-> blockReason,
     promptCategories |-> promptCategories, finishReason |-> finishReason,
     candidateCategories |-> candidateCategories, parts |-> parts]

\* null, for a string
NoString == <<>>

\* geminiService.ts 70-81
formatBlockReason(reason) ==
    IF reason = NoString \/ reason = ReasonUnspecified THEN NoString
    ELSE LET normalized == toUpperCase(reason)
         IN IF normalized = ReasonSafety THEN StrBlockedSafety
            ELSE IF normalized = ReasonOther THEN StrBlockedOther
            ELSE StrBlockedPrefix \o toLowerCase(replaceUnderscores(normalized))

\* geminiService.ts 83-113: the message of a blocked response, NoString when
\* the response is not blocked
getBlockMessage(response) ==
    LET reason == IF response.promptFeedback /\ response.blockReason # NoString
                  THEN response.blockReason
                  ELSE IF response.finishReason # NoString
                          /\ toUpperCase(response.finishReason) # FinishStop
                       THEN response.finishReason
                       ELSE NoString
        friendly == formatBlockReason(reason)
        safetyCategories == IF response.promptFeedback THEN response.promptCategories ELSE <<>>
        mergedCategories == unique(safetyCategories \o response.candidateCategories)
        categoryText == IF mergedCategories # <<>>
                        THEN <<" ", "(">> \o join(mergedCategories) \o <<")">>
                        ELSE <<>>
        base == IF friendly # NoString THEN friendly ELSE StrBlockedBase
    IN IF friendly = NoString /\ ~response.promptFeedback THEN NoString
       ELSE base \o categoryText \o StrPleaseAdjust

\* the content parts extractImageData returns
TextContent(text, isThought, signature) ==
    [type |-> "text", text |-> text, isThought |-> isThought,
     thoughtSignature |-> signature, mimeType |-> <<>>, thoughtSummaries |-> <<>>]

ImageContent(mimeType, thoughtSummaries, signature) ==
    [type |-> "image", text |-> "", isThought |-> FALSE,
     thoughtSignature |-> signature, mimeType |-> mimeType,
     thoughtSummaries |-> thoughtSummaries]

\* geminiService.ts 183-211: the loop over the parts, from part i on
RECURSIVE extractParts(_, _, _, _)
extractParts(parts, i, accumulatedThoughts, contentParts) ==
    IF i > Len(parts) THEN contentParts
    ELSE LET part == parts[i]
         IN IF part.text # ""
            THEN extractParts(parts, i + 1, Append(accumulatedThoughts, part.text),
                    Append(contentParts,
                           TextContent(part.text, part.thought \/ part.signature # "",
                                       part.signature)))
            ELSE IF part.data
            THEN extractParts(parts, i + 1, accumulatedThoughts,
                    Append(contentParts,
                           ImageContent(part.mimeType, accumulatedThoughts, part.signature)))
            ELSE extractParts(parts, i + 1, accumulatedThoughts, contentParts)

\* geminiService.ts 169-226: the content parts, or the message of the error thrown
extractImageData(response) ==
    LET blockMessage == getBlockMessage(response)
        contentParts == extractParts(response.parts, 1, <<>>, <<>>)
    IN IF blockMessage # NoString
       THEN [ok |-> FALSE, message |-> blockMessage, content |-> <<>>]
       ELSE IF \E k \in 1..Len(contentParts) : contentParts[k].type = "image"
       THEN [ok |-> TRUE, message |-> <<>>, content |-> contentParts]
       ELSE [ok |-> FALSE, message |-> MsgNoImage, content |-> <<>>]

-----------------------------------------------------------------------------
(* One provider call                                                       *)

\* What one call of send(history) can end with: the content parts of an image
\* response, or a thrown error.  call is the position of the provider call.
Success(n) == [ok |-> TRUE, name |-> "", message |-> <<>>, call |-> n]
Failure(msg, n) == [ok |-> FALSE, name |-> "Error", message |-> msg, call |-> n]
APIKeyError == [ok |-> FALSE, name |-> "APIKeyError", message |-> MsgApiKeyError, call |-> 0]

\* geminiService.ts 257-266: what send makes of a response: the content parts,
\* or the error of extractImageData thrown on
Responded(response, n) ==
    LET extracted == extractImageData(response)
    IN [ok |-> extracted.ok, name |-> IF extracted.ok THEN "" ELSE "Error",
        message |-> extracted.message, call |-> n,
        response |-> response, content |-> extracted.content]

\* longest list of parts in a response
MaxParts == 3

\* the parts a response is made of: a plain text, a text flagged as thought, a
\* text that only carries a thought signature, an image, an image flagged as
\* thought
Parts ==
    {ResponsePart("plain", FALSE, "", FALSE), ResponsePart("flagged", TRUE, "", FALSE),
     ResponsePart("signed", FALSE, "sig", FALSE), ResponsePart("", FALSE, "", TRUE),
     ResponsePart("", TRUE, "", TRUE)}

PartLists == UNION {[1..n -> Parts] : n \in 0..MaxParts}

BlockReasons == {NoString, ReasonUnspecified, ReasonSafety, ReasonOther, ReasonProhibited}
FinishReasons ==
    {NoString, FinishStop, FinishStopLower, FinishMaxTokens, FinishRecitation, ReasonSafety}

\* The responses of the provider: any list of parts in a response that finished
\* with STOP, and an image under every combination of prompt feedback, block
\* reason, finish reason and safety categories.
Responses ==
    {Response(FALSE, NoString, <<>>, FinishStop, <<>>, parts) : parts \in PartLists}
    \cup {Response(FALSE, NoString, <<>>, finishReason, candidateCategories,
                   <<ResponsePart("", FALSE, "", TRUE)>>) :
            finishReason \in FinishReasons,
            candidateCategories \in {<<>>, <<CategoryHarassment>>, <<CategoryDangerous>>}}
    \cup {Response(TRUE, blockReason, promptCategories, finishReason, candidateCategories,
                   <<ResponsePart("", FALSE, "", TRUE)>>) :
            blockReason \in BlockReasons,
            promptCategories \in {<<>>, <<CategoryHarassment>>},
            finishReason \in FinishReasons,
            candidateCategories \in {<<>>, <<CategoryHarassment>>, <<CategoryDangerous>>}}

\* The provider: in mode "limit" it raises a context-limit error exactly when it
\* receives more than K messages; in mode "free" every outcome is possible; in
\* mode "respond" it answers with a response, which send hands to
\* extractImageData.
Providers ==
    {[mode |-> "limit", K |-> k] : k \in 0..MaxK} \cup {[mode |-> "free", K |-> 0]}

sendOutcomes(history, n) ==
    IF provider.mode = "limit"
    THEN IF Len(history) > provider.K
         THEN {Failure(MsgTokenLimit, n)}
         ELSE {Success(n)}
    ELSE IF provider.mode = "respond"
    THEN {Responded(response, n) : response \in Responses}
    ELSE {Success(n)} \cup {Failure(m, n) : m \in ErrorMessages}

\* an invocation: any history of up to MaxMessages messages, with or without a
\* stored key, against any provider
GenStart ==
    /\ messages \in {[i \in 1..n |-> i] : n \in 0..MaxMessages}
    /\ apiKey \in BOOLEAN
    /\ provider \in Providers
    /\ calls = <<>>
    /\ genPc = "first"
    /\ result = Success(0)

\* geminiService.ts 232-235: no key, no call
GenNoKey ==
    /\ genPc = "first"
    /\ ~apiKey
    /\ result' = APIKeyError
    /\ genPc' = "done"
    /\ UNCHANGED <<messages, apiKey, provider, calls>>
    /\ UNCHANGED <<storeVars, appVars>>

\* the first call failed: retry on a context-limit error, rethrow otherwise
\* (geminiService.ts 271-278)
catchFirstMutant(o) == "retry"
catchFirst(o) == IF isContextLimitError(o) THEN "retry" ELSE "done"

\* geminiService.ts 269-270: await send(messages)
GenFirstSend ==
    /\ genPc = "first"
    /\ apiKey
    /\ \E o \in sendOutcomes(messages, 1) :
        /\ calls' = Append(calls, [history |-> messages, outcome |-> o])
        /\ genPc' = IF o.ok THEN "done" ELSE catchFirst(o)
        /\ result' = o
    /\ UNCHANGED <<messages, apiKey, provider>>
    /\ UNCHANGED <<storeVars, appVars>>

\* geminiService.ts 276: return send(truncated)
GenRetrySend ==
    /\ genPc = "retry"
    /\ \E o \in sendOutcomes(truncated(messages), 2) :
        /\ calls' = Append(calls, [history |-> truncated(messages), outcome |-> o])
        /\ result' = o
        /\ genPc' = "done"
    /\ UNCHANGED <<messages, apiKey, provider>>
    /\ UNCHANGED <<storeVars, appVars>>

NextGen ==
    \/ GenNoKey
    \/ GenFirstSend
    \/ GenRetrySend

-----------------------------------------------------------------------------
(* Threads, messages and content parts (types.ts).  An id of 0, a url of 0 *)
(* and a signature of "" stand for undefined.  A mimeType is the pair of   *)
(* its two halves: <<"image", "png">> is image/png.                       *)

TextPart(text, isThought, sig) ==
    [type |-> "text", text |-> text, isThought |-> isThought, thoughtSignature |-> sig,
     imageId |-> 0, mimeType |-> <<>>, isInputImage |-> FALSE, url |-> 0]

ImagePart(imageId, mimeType, isInputImage, url, sig) ==
    [type |-> "image", text |-> "", isThought |-> FALSE, thoughtSignature |-> sig,
     imageId |-> imageId, mimeType |-> mimeType, isInputImage |-> isInputImage, url |-> url]

Message(id, role, content) == [id |-> id, role |-> role, content |-> content]

Thread(id, msgs, thumbnailImageId, thumbnailUrl, updatedAt) ==
    [id |-> id, messages |-> msgs, thumbnailImageId |-> thumbnailImageId,
     thumbnailUrl |-> thumbnailUrl, updatedAt |-> updatedAt]

\* currentThread === null, and the result of a find that found nothing
NullThread == Thread(0, <<>>, 0, 0, 0)

\* fileSystemStorage.ts 4-9: the folder of the File System Access backend with
\* nothing written yet: no file, no conversations.json
NoDoc == [present |-> FALSE, version |-> "", threads |-> <<>>]
NoLocal == [files |-> {}, doc |-> NoDoc]

\* the image parts of a thread's messages, in order
RECURSIVE Flatten(_)
Flatten(ss) == IF ss = <<>> THEN <<>> ELSE Head(ss) \o Flatten(Tail(ss))

PartsOf(thread) == Flatten([i \in 1..Len(thread.messages) |-> thread.messages[i].content])

ImagePartsOf(thread) == SelectSeq(PartsOf(thread), LAMBDA c : c.type = "image")

-----------------------------------------------------------------------------
(* The storage server (server.js): asset files                             *)

\* conversationStorage.ts 4, server.js 314 and 328
MAX_THREADS == 50

\* A file under the storage root: input_images/<id>, nano-banana-<id>.<ext>,
\* <id>.<ext> or <id>.
InputFile(imageId) == [dir |-> "input_images", prefix |-> FALSE, id |-> imageId, ext |-> ""]
RootFile(prefix, imageId, ext) == [dir |-> "", prefix |-> prefix, id |-> imageId, ext |-> ext]

\* server.js 56: mimeType.split('/')[1] || 'png'
extOf(mimeType) == IF Len(mimeType) >= 2 /\ mimeType[2] # "" THEN mimeType[2] ELSE "png"

\* server.js 55-58
generatedImagePath(imageId, mimeType) == RootFile(TRUE, imageId, extOf(mimeType))

\* server.js 59
inputImagePath(imageId) == InputFile(imageId)

\* server.js 147
commonExts == <<"png", "jpg", "jpeg", "webp", "gif">>

NoFile == [dir |-> "", prefix |-> FALSE, id |-> 0, ext |-> ""]

\* server.js 139-173: the candidates in the order they are tried
generatedCandidatesMutant(imageId, mimeType) ==
    <<generatedImagePath(imageId, mimeType)>>
    \o [i \in 1..Len(commonExts) |-> RootFile(FALSE, imageId, commonExts[i])]
    \o [i \in 1..Len(commonExts) |-> RootFile(TRUE, imageId, commonExts[i])]
    \o <<RootFile(FALSE, imageId, "")>>
generatedCandidates(imageId, mimeType) ==
    <<generatedImagePath(imageId, mimeType)>>
    \o [i \in 1..Len(commonExts) |-> RootFile(TRUE, imageId, commonExts[i])]
    \o [i \in 1..Len(commonExts) |-> RootFile(FALSE, imageId, commonExts[i])]
    \o <<RootFile(FALSE, imageId, "")>>

findGeneratedImageFile(fs, imageId, mimeType) ==
    LET cands == generatedCandidates(imageId, mimeType)
        hits == {i \in 1..Len(cands) : cands[i] \in fs}
    IN IF hits = {} THEN NoFile
       ELSE cands[CHOOSE i \in hits : \A j \in hits : i <= j]

\* server.js 399-432 (GET /api/images/:id) behind fileSystemStorage.ts 365-377
\* (loadImageData): the file whose bytes are returned, NoFile for ''
loadImageData(fs, imageId, isInputImage, mimeType) ==
    IF isInputImage /\ inputImagePath(imageId) \in fs
    THEN inputImagePath(imageId)
    ELSE findGeneratedImageFile(fs, imageId, mimeType)

\* fileSystemStorage.ts 355-357 and server.js 434-442
deleteInputImage(fs, imageId) == fs \ {inputImagePath(imageId)}

\* fileSystemStorage.ts 359-363 and server.js 444-453
deleteGeneratedImage(fs, imageId, mimeType) == fs \ {generatedImagePath(imageId, mimeType)}

\* fileSystemStorage.ts 330-341 and server.js 382-397
saveImageMutant(fs, imageId, mimeType) == fs
saveImage(fs, imageId, mimeType) == fs \cup {generatedImagePath(imageId, mimeType)}

\* fileSystemStorage.ts 343-353 and server.js 366-380
saveInputImage(fs, imageId) == fs \cup {inputImagePath(imageId)}

-----------------------------------------------------------------------------
(* The storage server: table threads, and ConversationStorage over it      *)

\* Array.prototype.sort with (a, b) => b.updatedAt - a.updatedAt: stable,
\* descending.  Also ORDER BY updatedAt DESC over the rows in insertion order.
insertDesc(sorted, x) ==
    LET k == Cardinality({i \in 1..Len(sorted) : sorted[i].updatedAt >= x.updatedAt})
    IN SubSeq(sorted, 1, k) \o <<x>> \o SubSeq(sorted, k + 1, Len(sorted))

\* (sorted holds the first i - 1 elements of s)
RECURSIVE sortFrom(_, _, _)
sortFrom(sorted, s, i) ==
    IF Len(sorted) # i - 1 \/ i > Len(s) THEN sorted
    ELSE sortFrom(insertDesc(sorted, s[i]), s, i + 1)

sortDesc(s) == IF Len(s) <= 1 THEN s ELSE sortFrom(<<>>, s, 1)

\* Array.prototype.slice(0, n)
take(s, n) == SubSeq(s, 1, IF Len(s) < n THEN Len(s) ELSE n)

\* JSON.parse(JSON.stringify(part)): fields holding undefined are dropped and
\* read back as undefined; arrays keep their order
jsonPart(c) ==
    [type |-> c.type, text |-> c.text, isThought |-> c.isThought,
     thoughtSignature |-> c.thoughtSignature, imageId |-> c.imageId,
     mimeType |-> c.mimeType, isInputImage |-> c.isInputImage, url |-> c.url]

jsonMessage(m) ==
    [id |-> m.id, role |-> m.role,
     content |-> [i \in 1..Len(m.content) |-> jsonPart(m.content[i])]]

jsonThread(t) ==
    [id |-> t.id,
     messages |-> [i \in 1..Len(t.messages) |-> jsonMessage(t.messages[i])],
     thumbnailImageId |-> t.thumbnailImageId, thumbnailUrl |-> t.thumbnailUrl,
     updatedAt |-> t.updatedAt]

\* conversationStorage.ts 6-26
sanitizePartMutant(item) == [item EXCEPT !.url = 0, !.thoughtSignature = ""]
sanitizePart(item) == IF item.type = "image" THEN [item EXCEPT !.url = 0] ELSE item

sanitizeMessage(msg) ==
    [msg EXCEPT !.content = [i \in 1..Len(msg.content) |-> sanitizePart(msg.content[i])]]

sanitizeThread(thread) ==
    [thread EXCEPT !.messages = [i \in 1..Len(thread.messages) |-> sanitizeMessage(thread.messages[i])]]

\* server.js 113-122: DELETE FROM threads, then one INSERT per thread
replaceThreadsInDb(items, clock) ==
    [i \in 1..Len(items) |->
        [id |-> items[i].id, data |-> jsonThread(items[i]),
         updatedAt |-> IF items[i].updatedAt # 0 THEN items[i].updatedAt ELSE clock]]

\* server.js 108-111
loadThreadsFromDb(rows) ==
    LET ordered == sortDesc(rows)
    IN [i \in 1..Len(ordered) |-> ordered[i].data]

\* server.js 310-316: the payload holds the full list of threads
postThreads(payloadThreads, clock) ==
    replaceThreadsInDb(take(sortDesc(payloadThreads), MAX_THREADS), clock)

\* conversationStorage.ts 29-37 over server.js 280-289
loadThreads(rows) == sortDesc(loadThreadsFromDb(rows))

\* Array.prototype.find / findIndex by thread id: 0 when absent
findIndex(threads, threadId) ==
    IF \E i \in 1..Len(threads) : threads[i].id = threadId
    THEN CHOOSE i \in 1..Len(threads) :
            threads[i].id = threadId /\ \A j \in 1..(i - 1) : threads[j].id # threadId
    ELSE 0

\* conversationStorage.ts 39-43
getThread(rows, threadId) ==
    LET threads == loadThreads(rows)
        i == findIndex(threads, threadId)
    IN IF i = 0 THEN NullThread ELSE threads[i]

\* conversationStorage.ts 48-53
upsertMutant(threads, thread) ==
    IF findIndex(threads, thread.id) > 0 THEN threads ELSE Append(threads, thread)
upsert(threads, thread) ==
    LET index == findIndex(threads, thread.id)
    IN IF index > 0 THEN [threads EXCEPT ![index] = thread] ELSE Append(threads, thread)

\* conversationStorage.ts 55-57
trimmed(threads, thread) == take(sortDesc(upsert(threads, thread)), MAX_THREADS)

\* conversationStorage.ts 149-156
saveAllThreads(threads, clock) ==
    postThreads([i \in 1..Len(threads) |-> sanitizeThread(threads[i])], clock)

\* conversationStorage.ts 45-60, from the threads its loadThreads returned
saveThread(loaded, thread, clock) == saveAllThreads(trimmed(loaded, thread), clock)

\* conversationStorage.ts 133-147
RECURSIVE deleteAssets(_, _)
deleteAssets(fs, parts) ==
    IF parts = <<>> THEN fs
    ELSE LET content == Head(parts)
         IN deleteAssets(
              IF content.isInputImage
              THEN deleteInputImage(fs, content.imageId)
              ELSE deleteGeneratedImage(fs, content.imageId, Png),
              Tail(parts))

deleteThreadAssets(fs, thread) == deleteAssets(fs, ImagePartsOf(thread))

\* conversationStorage.ts 84-85
filtered(threads, threadId) == SelectSeq(threads, LAMBDA t : t.id # threadId)

\* The ids the migration derives from a legacy id: `thread_migrated_${id}`,
\* `msg_${id}_user`, `msg_${id}_assistant`.  Ids are numbers in this model; a
\* prefixed id is the legacy id moved into a range of its own.
IdSpace == 1000
threadMigratedId(id) == IdSpace + id
msgUserId(id) == 2 * IdSpace + id
msgAssistantId(id) == 3 * IdSpace + id

\* server.js 280-289 answering fileSystemStorage.ts 390-396: with a storage
\* folder configured the response is ok and always carries version '2.0'
loadConversations(rows) ==
    [ok |-> TRUE, version |-> "2.0", threads |-> loadThreadsFromDb(rows)]

\* fileSystemStorage.ts 392-394: loadConversations() returns null when the
\* response is not ok
NoConversations == [ok |-> FALSE, version |-> "", threads |-> <<>>]

\* conversationStorage.ts 91: existing && existing.version === '2.0'
isCurrentVersionMutant(existing) == FALSE
isCurrentVersion(existing) == existing.ok /\ existing.version = "2.0"

\* conversationStorage.ts 100-127: the thread made of one legacy record
migratedThread(gen) ==
    Thread(threadMigratedId(gen.id),
           <<Message(msgUserId(gen.id), "user", <<TextPart(gen.prompt, FALSE, "")>>),
             Message(msgAssistantId(gen.id), "assistant",
                     <<ImagePart(gen.id, Png, FALSE, 0, "")>>)>>,
           gen.id, 0, gen.timestamp)

\* conversationStorage.ts 88-131: the table after migrateOldGenerations(), from
\* what loadConversations() returned and the items loadMetadata() returns
migrateOldGenerations(existing, rows, oldGenerations, clock) ==
    IF isCurrentVersion(existing) THEN rows
    ELSE IF Len(oldGenerations) = 0 THEN rows
    ELSE saveAllThreads([i \in 1..Len(oldGenerations) |-> migratedThread(oldGenerations[i])],
                        clock)

-----------------------------------------------------------------------------
(* SpecStore: one client calling ConversationStorage, one call at a time,  *)
(* on a store that already holds threads from earlier sessions.            *)

\* ConversationStorage calls made in one run
MaxOps == 2

\* A thread as the chat component builds it: a user message with text (and,
\* in shape "B", an attached input image), then an assistant message with the
\* generated image (in shape "B" a jpeg after a signed thought).  The ids are
\* taken from base on.
UserMessage(base, shape) ==
    Message(base, "user",
        IF shape = "A"
        THEN <<TextPart("prompt", FALSE, "")>>
        ELSE <<TextPart("prompt", FALSE, ""), ImagePart(base, Jpeg, TRUE, 1, "")>>)

AssistantMessage(base, shape) ==
    Message(base + 1, "assistant",
        IF shape = "A"
        THEN <<ImagePart(base + 1, Png, FALSE, 1, "")>>
        ELSE <<TextPart("thought", TRUE, "sig"), ImagePart(base + 1, Jpeg, FALSE, 1, "sig")>>)

NewThread(id, shape, updatedAt) ==
    Thread(id, <<UserMessage(id, shape), AssistantMessage(id, shape)>>, id + 1, 1, updatedAt)

\* the assets the chat component has saved for such a thread
AssetsOf(thread) ==
    LET parts == ImagePartsOf(thread)
    IN {IF parts[i].isInputImage
        THEN inputImagePath(parts[i].imageId)
        ELSE generatedImagePath(parts[i].imageId, parts[i].mimeType) : i \in 1..Len(parts)}

\* The store after n earlier conversations: thread k has id 2k - 1 and was
\* updated at time 2k; odd k have shape "A", even k shape "B".
StoredThread(k) == NewThread(2 * k - 1, IF k % 2 = 1 THEN "A" ELSE "B", 2 * k)

StoredThreads(n) == [k \in 1..n |-> StoredThread(n + 1 - k)]

InitialCounts == {0, MAX_THREADS - 1, MAX_THREADS}

\* an updatedAt older than every stored thread's
OldStamp == 1

\* legacy generation records found in generations.json
MaxLegacy == 2

\* The legacy list after n generations of the single-shot generator
\* (GenerationStorage.saveGeneration, newest first): record k has image id
\* IdSpace - k and was made at time k, before every stored thread was updated.
LegacyGeneration(k) == [id |-> IdSpace - k, prompt |-> "legacy prompt", timestamp |-> k]

LegacyGenerations(n) == [k \in 1..n |-> LegacyGeneration(n + 1 - k)]

NoCall == [op |-> "none", thread |-> NullThread, id |-> 0]

GenIdle ==
    /\ messages = <<>>
    /\ apiKey = TRUE
    /\ provider = [mode |-> "free", K |-> 0]
    /\ calls = <<>>
    /\ genPc = "done"
    /\ result = Success(0)

AppIdle ==
    /\ currentThread = NullThread
    /\ generatingThreadIds = {}
    /\ messageInput = FALSE
    /\ attachedImages = <<>>
    /\ error = ""
    /\ keyReset = FALSE
    /\ handler = <<>>

InitStore ==
    /\ GenIdle
    /\ AppIdle
    /\ \E n \in InitialCounts :
        /\ db = saveAllThreads(StoredThreads(n), 0)
        /\ files = UNION {AssetsOf(StoredThread(k)) : k \in 1..n}
        /\ nextId = 2 * n + 1
        /\ now = 2 * n + 1
    /\ generations \in {LegacyGenerations(n) : n \in 0..MaxLegacy}
    /\ local = NoLocal
    /\ call = NoCall
    /\ opCount = 0

\* the threads a call is made on: the most and the least recently updated
Candidates ==
    LET threads == loadThreads(db)
    IN IF threads = <<>> THEN {} ELSE {threads[1], threads[Len(threads)]}

\* ConversationStorage.saveThread(thread), conversationStorage.ts 45-60
StoreSave(thread) ==
    /\ db' = saveThread(loadThreads(db), thread, now)
    /\ call' = [op |-> "save", thread |-> thread, id |-> thread.id]
    /\ opCount' = opCount + 1
    /\ now' = now + 1
    /\ UNCHANGED <<files, generations, local>>

\* a thread that is not in the store yet, stamped now or with an old time
StoreSaveNew ==
    /\ opCount < MaxOps
    /\ \E shape \in {"A", "B"}, updatedAt \in {OldStamp, now} :
        StoreSave(NewThread(nextId, shape, updatedAt))
    /\ nextId' = nextId + 2
    /\ UNCHANGED genVars
    /\ UNCHANGED <<currentThread, generatingThreadIds, messageInput, attachedImages, error, keyReset, handler>>

\* a stored thread again: unchanged (the thumbnail backfill), or with one more
\* turn and a new updatedAt
StoreSaveExisting ==
    /\ opCount < MaxOps
    /\ \E t \in Candidates :
        \/ StoreSave(t)
        \/ StoreSave([t EXCEPT !.messages = t.messages \o
                                  <<UserMessage(nextId, "A"), AssistantMessage(nextId, "A")>>,
                               !.updatedAt = now])
    /\ nextId' = nextId + 2
    /\ UNCHANGED genVars
    /\ UNCHANGED <<currentThread, generatingThreadIds, messageInput, attachedImages, error, keyReset, handler>>

\* ConversationStorage.deleteThread(threadId), conversationStorage.ts 75-86
StoreDelete ==
    /\ opCount < MaxOps
    /\ \E threadId \in {t.id : t \in Candidates} \cup {nextId} :
        LET threads == loadThreads(db)
            thread == getThread(db, threadId)
        IN /\ files' = IF thread.id # 0 THEN deleteThreadAssets(files, thread) ELSE files
           /\ db' = saveAllThreads(filtered(threads, threadId), now)
           /\ call' = [op |-> "delete", thread |-> thread, id |-> threadId]
    /\ opCount' = opCount + 1
    /\ UNCHANGED <<generations, local, nextId, now>>
    /\ UNCHANGED genVars
    /\ UNCHANGED <<currentThread, generatingThreadIds, messageInput, attachedImages, error, keyReset, handler>>

\* FileSystemStorage.deleteGeneratedImage(imageId, mimeType) called on its own
\* (the explicit asset-level delete), fileSystemStorage.ts 359-363
StoreDeleteImage ==
    /\ opCount < MaxOps
    /\ \E t \in Candidates :
        \E i \in 1..Len(ImagePartsOf(t)) :
            LET content == ImagePartsOf(t)[i]
            IN /\ ~content.isInputImage
               /\ generatedImagePath(content.imageId, content.mimeType) \in files
               /\ files' = deleteGeneratedImage(files, content.imageId, content.mimeType)
               /\ call' = [op |-> "deleteImage", thread |-> NullThread, id |-> content.imageId]
    /\ opCount' = opCount + 1
    /\ UNCHANGED <<db, generations, local, nextId, now>>
    /\ UNCHANGED genVars
    /\ UNCHANGED <<currentThread, generatingThreadIds, messageInput, attachedImages, error, keyReset, handler>>

\* ConversationStorage.migrateOldGenerations(), conversationStorage.ts 88-131,
\* as initializeThreads calls it once a storage folder is configured
StoreMigrate ==
    /\ opCount < MaxOps
    /\ db' = migrateOldGenerations(loadConversations(db), db, generations, now)
    /\ call' = [op |-> "migrate", thread |-> NullThread, id |-> 0]
    /\ opCount' = opCount + 1
    /\ UNCHANGED <<files, generations, local, nextId, now>>
    /\ UNCHANGED genVars
    /\ UNCHANGED <<currentThread, generatingThreadIds, messageInput, attachedImages, error, keyReset, handler>>

NextStore ==
    \/ StoreMigrate
    \/ StoreSaveNew
    \/ StoreSaveExisting
    \/ StoreDelete
    \/ StoreDeleteImage

SpecStore == InitStore /\ [][NextStore]_vars

-----------------------------------------------------------------------------
(* SpecAssets: the asset endpoints of the storage server called one at a   *)
(* time, on a storage folder that may hold files of every layout the       *)
(* server looks for (current names, other extensions, legacy names without *)
(* prefix, the id itself).                                                 *)

\* files in the storage folder at the start
MaxFiles == 3
\* asset calls made in one run
MaxAssetOps == 2

Webp == <<"image", "webp">>

\* the mimeType hints of a call
MimeTypes == {Png, Jpeg, Webp}

\* the image id the calls are made on
AssetId == 1

\* every file a load of AssetId can look at
AssetFiles ==
    {InputFile(AssetId), RootFile(FALSE, AssetId, "")}
    \cup {RootFile(prefix, AssetId, commonExts[i]) :
            prefix \in BOOLEAN, i \in 1..Len(commonExts)}

InitAssets ==
    /\ GenIdle
    /\ AppIdle
    /\ db = <<>>
    /\ generations = <<>>
    /\ local = NoLocal
    /\ files \in {fs \in SUBSET AssetFiles : Cardinality(fs) <= MaxFiles}
    /\ call = NoCall
    /\ opCount = 0
    /\ nextId = 1
    /\ now = 1

\* the fields of call after an asset call: what was asked and the file found
AssetCall(op, isInputImage, mimeType, found) ==
    [op |-> op, thread |-> NullThread, id |-> AssetId,
     isInputImage |-> isInputImage, mimeType |-> mimeType, found |-> found]

\* FileSystemStorage.loadImageData(imageId, isInputImage, mimeType),
\* fileSystemStorage.ts 365-377 over server.js 399-432
AssetLoad ==
    /\ opCount < MaxAssetOps
    /\ \E isInputImage \in BOOLEAN, mimeType \in MimeTypes :
        call' = AssetCall("loadImage", isInputImage, mimeType,
                          loadImageData(files, AssetId, isInputImage, mimeType))
    /\ opCount' = opCount + 1
    /\ UNCHANGED <<db, files, generations, local>>
    /\ UNCHANGED <<genVars, appVars>>

\* FileSystemStorage.saveImage(generationId, base64Data, mimeType),
\* fileSystemStorage.ts 330-341 over server.js 382-397
AssetSaveImage ==
    /\ opCount < MaxAssetOps
    /\ \E mimeType \in MimeTypes :
        /\ files' = saveImage(files, AssetId, mimeType)
        /\ call' = AssetCall("saveImage", FALSE, mimeType, generatedImagePath(AssetId, mimeType))
    /\ opCount' = opCount + 1
    /\ UNCHANGED <<db, generations, local>>
    /\ UNCHANGED <<genVars, appVars>>

\* FileSystemStorage.saveInputImage(file, imageId), fileSystemStorage.ts 343-353
\* over server.js 366-380
AssetSaveInputImage ==
    /\ opCount < MaxAssetOps
    /\ files' = saveInputImage(files, AssetId)
    /\ call' = AssetCall("saveInputImage", TRUE, Png, inputImagePath(AssetId))
    /\ opCount' = opCount + 1
    /\ UNCHANGED <<db, generations, local>>
    /\ UNCHANGED <<genVars, appVars>>

\* FileSystemStorage.deleteInputImage(imageId), fileSystemStorage.ts 355-357
\* over server.js 434-442
AssetDeleteInputImage ==
    /\ opCount < MaxAssetOps
    /\ files' = deleteInputImage(files, AssetId)
    /\ call' = AssetCall("deleteInputImage", TRUE, Png, NoFile)
    /\ opCount' = opCount + 1
    /\ UNCHANGED <<db, generations, local>>
    /\ UNCHANGED <<genVars, appVars>>

\* FileSystemStorage.deleteGeneratedImage(imageId, mimeType),
\* fileSystemStorage.ts 359-363 over server.js 444-453
AssetDeleteGeneratedImage ==
    /\ opCount < MaxAssetOps
    /\ \E mimeType \in MimeTypes :
        /\ files' = deleteGeneratedImage(files, AssetId, mimeType)
        /\ call' = AssetCall("deleteGeneratedImage", FALSE, mimeType, NoFile)
    /\ opCount' = opCount + 1
    /\ UNCHANGED <<db, generations, local>>
    /\ UNCHANGED <<genVars, appVars>>

NextAssets ==
    \/ AssetLoad
    \/ AssetSaveImage
    \/ AssetSaveInputImage
    \/ AssetDeleteInputImage
    \/ AssetDeleteGeneratedImage

SpecAssets == InitAssets /\ [][NextAssets]_vars

-----------------------------------------------------------------------------
(* SpecFormat: the history serialised for the provider                     *)
(* (formatMessagesForGemini, geminiService.ts 115-167)                     *)

\* the text put in the place of an image whose data is not found
ImageUnavailable == "[image unavailable in history]"

\* a part of the request: text with its thought flag and signature, or the
\* inline data of an image (the file read) with its signature
RequestText(text, thought, signature) ==
    [text |-> text, thought |-> thought, thoughtSignature |-> signature,
     inlineData |-> NoFile, mimeType |-> <<>>]

RequestImage(data, mimeType, signature) ==
    [text |-> "", thought |-> FALSE, thoughtSignature |-> signature,
     inlineData |-> data, mimeType |-> mimeType]

\* geminiService.ts 119-159: one content part
formatPart(fs, content) ==
    IF content.type = "text"
    THEN RequestText(content.text, content.isThought, content.thoughtSignature)
    ELSE LET base64Data == loadImageData(fs, content.imageId, content.isInputImage,
                                         content.mimeType)
         IN IF base64Data = NoFile
            THEN RequestText(ImageUnavailable, FALSE, "")
            ELSE RequestImage(base64Data, content.mimeType, content.thoughtSignature)

\* geminiService.ts 115-167, when every loadImageData call is answered
formatMessagesForGemini(fs, history) ==
    [i \in 1..Len(history) |->
        [role |-> IF history[i].role = "user" THEN "user" ELSE "model",
         parts |-> [k \in 1..Len(history[i].content) |->
                        formatPart(fs, history[i].content[k])]]]

\* fileSystemStorage.ts 365-377: loadImageData throws when the response is
\* neither ok nor 404, and when the request itself fails; the rejection leaves
\* Promise.all and send (geminiService.ts 116, 240) before the provider is called
formatThrows(history, answered) ==
    /\ ~answered
    /\ \E i \in 1..Len(history) : \E k \in 1..Len(history[i].content) :
            history[i].content[k].type = "image"

\* longest content of a message of the history
MaxContent == 2

\* the parts of the histories: a text, a text that is a signed thought, an
\* input image, a generated image, a signed generated image
HistoryParts ==
    {TextPart("prompt", FALSE, ""), TextPart("thought", TRUE, "sig"),
     ImagePart(1, Jpeg, TRUE, 0, ""), ImagePart(2, Png, FALSE, 0, ""),
     ImagePart(2, Png, FALSE, 0, "sig")}

HistoryContents == UNION {[1..n -> HistoryParts] : n \in 1..MaxContent}

\* a user message, or a user message and the assistant's answer
Histories ==
    {<<Message(1, "user", c)>> : c \in HistoryContents}
    \cup {<<Message(1, "user", c), Message(2, "assistant", d)>> :
            c \in HistoryContents, d \in HistoryContents}

InitFormat ==
    /\ GenIdle
    /\ AppIdle
    /\ db = <<>>
    /\ generations = <<>>
    /\ local = NoLocal
    /\ files \in SUBSET {inputImagePath(1), generatedImagePath(2, Png)}
    /\ call = NoCall
    /\ opCount = 0
    /\ nextId = 1
    /\ now = 1

\* geminiService.ts 239-256: send(history) up to the provider call
FormatSend ==
    /\ call.op = "none"
    /\ \E history \in Histories, answered \in BOOLEAN :
        call' = [op |-> "send", thread |-> NullThread, id |-> 0,
                 history |-> history, answered |-> answered,
                 sent |-> ~formatThrows(history, answered),
                 request |-> IF formatThrows(history, answered) THEN <<>>
                             ELSE formatMessagesForGemini(files, history)]
    /\ UNCHANGED <<db, files, generations, local, opCount>>
    /\ UNCHANGED <<genVars, appVars>>

NextFormat == FormatSend

SpecFormat == InitFormat /\ [][NextFormat]_vars

-----------------------------------------------------------------------------
(* The File System Access backend (fileSystemStorage.ts 4-244) and         *)
(* SpecBackends: the same calls made on both backends, each on a folder of *)
(* its own that starts empty.                                              *)

\* fileSystemStorage.ts 35-59: the file is always named nano-banana-<id>.png
localSaveImage(fs, imageId, mimeType) == fs \cup {RootFile(TRUE, imageId, "png")}

\* fileSystemStorage.ts 70-80
localSaveInputImage(fs, imageId) == fs \cup {InputFile(imageId)}

\* fileSystemStorage.ts 82-93
localDeleteInputImage(fs, imageId) == fs \ {InputFile(imageId)}

\* fileSystemStorage.ts 95-106
localDeleteGeneratedImage(fs, imageId) == fs \ {RootFile(TRUE, imageId, "png")}

\* fileSystemStorage.ts 119-133: the file read; getFileHandle throws when the
\* file does not exist (NoFile)
localLoadImageData(fs, imageId, isInputImage) ==
    LET file == IF isInputImage THEN InputFile(imageId) ELSE RootFile(TRUE, imageId, "png")
    IN IF file \in fs THEN file ELSE NoFile

\* fileSystemStorage.ts 135-144: conversations.json holds JSON.stringify(data)
localSaveConversations(threads) ==
    [present |-> TRUE, version |-> "2.0",
     threads |-> [i \in 1..Len(threads) |-> jsonThread(threads[i])]]

\* conversationStorage.ts 29-37 over fileSystemStorage.ts 146-161
localLoadThreads(doc) == IF doc.present THEN sortDesc(doc.threads) ELSE <<>>

\* conversationStorage.ts 39-43
localGetThread(doc, threadId) ==
    LET threads == localLoadThreads(doc)
        i == findIndex(threads, threadId)
    IN IF i = 0 THEN NullThread ELSE threads[i]

\* conversationStorage.ts 149-156
localSaveAllThreads(threads) ==
    localSaveConversations([i \in 1..Len(threads) |-> sanitizeThread(threads[i])])

\* conversationStorage.ts 45-60
localSaveThread(doc, thread) == localSaveAllThreads(trimmed(localLoadThreads(doc), thread))

\* conversationStorage.ts 133-147
RECURSIVE localDeleteAssets(_, _)
localDeleteAssets(fs, parts) ==
    IF parts = <<>> THEN fs
    ELSE LET content == Head(parts)
         IN localDeleteAssets(
              IF content.isInputImage
              THEN localDeleteInputImage(fs, content.imageId)
              ELSE localDeleteGeneratedImage(fs, content.imageId),
              Tail(parts))

\* conversationStorage.ts 75-86
localDeleteThread(folder, threadId) ==
    LET threads == localLoadThreads(folder.doc)
        thread == localGetThread(folder.doc, threadId)
    IN [files |-> IF thread.id # 0 THEN localDeleteAssets(folder.files, ImagePartsOf(thread))
                  ELSE folder.files,
        doc |-> localSaveAllThreads(filtered(threads, threadId))]

\* calls made on the two backends in one run
MaxBackendOps == 3

InitBackends ==
    /\ GenIdle
    /\ AppIdle
    /\ db = <<>>
    /\ files = {}
    /\ generations = <<>>
    /\ local = NoLocal
    /\ call = NoCall
    /\ opCount = 0
    /\ nextId = 1
    /\ now = 1

\* the call made and what each backend returned
BackendCall(op, id, http, fsa) ==
    [op |-> op, thread |-> NullThread, id |-> id, http |-> http, fsa |-> fsa]

\* the threads saved: thread 1 with an input image 1 and a generated jpeg 2
\* after a signed thought, thread 3 with a generated png 4
BackendThreads == {NewThread(1, "B", now), NewThread(3, "A", now)}

BackendUnchanged ==
    /\ opCount' = opCount + 1
    /\ UNCHANGED <<generations, nextId>>
    /\ UNCHANGED genVars
    /\ UNCHANGED <<currentThread, generatingThreadIds, messageInput, attachedImages, error,
                   keyReset, handler>>

\* ConversationStorage.saveThread(thread)
BackendSaveThread ==
    /\ opCount < MaxBackendOps
    /\ \E thread \in BackendThreads :
        /\ db' = saveThread(loadThreads(db), thread, now)
        /\ local' = [local EXCEPT !.doc = localSaveThread(local.doc, thread)]
        /\ call' = BackendCall("save", thread.id, TRUE, TRUE)
    /\ now' = now + 1
    /\ UNCHANGED files
    /\ BackendUnchanged

\* ConversationStorage.loadThreads()
BackendLoadThreads ==
    /\ opCount < MaxBackendOps
    /\ call' = BackendCall("loadThreads", 0, loadThreads(db), localLoadThreads(local.doc))
    /\ UNCHANGED <<db, files, local, now>>
    /\ BackendUnchanged

\* ConversationStorage.getThread(threadId)
BackendGetThread ==
    /\ opCount < MaxBackendOps
    /\ \E thread \in BackendThreads :
        call' = BackendCall("getThread", thread.id,
                            getThread(db, thread.id), localGetThread(local.doc, thread.id))
    /\ UNCHANGED <<db, files, local, now>>
    /\ BackendUnchanged

\* ConversationStorage.deleteThread(threadId)
BackendDeleteThread ==
    /\ opCount < MaxBackendOps
    /\ \E threadId \in {t.id : t \in BackendThreads} :
        LET thread == getThread(db, threadId)
        IN /\ files' = IF thread.id # 0 THEN deleteThreadAssets(files, thread) ELSE files
           /\ db' = saveAllThreads(filtered(loadThreads(db), threadId), now)
           /\ local' = localDeleteThread(local, threadId)
           /\ call' = BackendCall("delete", threadId, TRUE, TRUE)
    /\ UNCHANGED now
    /\ BackendUnchanged

\* FileSystemStorage.saveImage(generationId, base64Data, mimeType) and
\* FileSystemStorage.saveInputImage(file, imageId)
BackendSaveImage ==
    /\ opCount < MaxBackendOps
    /\ \E imageId \in {1, 2}, isInputImage \in BOOLEAN, mimeType \in {Png, Jpeg} :
        /\ files' = IF isInputImage THEN saveInputImage(files, imageId)
                    ELSE saveImage(files, imageId, mimeType)
        /\ local' = [local EXCEPT !.files =
                        IF isInputImage THEN localSaveInputImage(@, imageId)
                        ELSE localSaveImage(@, imageId, mimeType)]
        /\ call' = BackendCall("saveImage", imageId, TRUE, TRUE)
    /\ UNCHANGED <<db, now>>
    /\ BackendUnchanged

\* FileSystemStorage.loadImageData(imageId, isInputImage, mimeType): whether
\* each backend found the image
BackendLoadImage ==
    /\ opCount < MaxBackendOps
    /\ \E imageId \in {1, 2}, isInputImage \in BOOLEAN, mimeType \in {Png, Jpeg} :
        call' = BackendCall("loadImage", imageId,
                    loadImageData(files, imageId, isInputImage, mimeType) # NoFile,
                    localLoadImageData(local.files, imageId, isInputImage) # NoFile)
    /\ UNCHANGED <<db, files, local, now>>
    /\ BackendUnchanged

\* FileSystemStorage.deleteGeneratedImage(imageId, mimeType) and
\* FileSystemStorage.deleteInputImage(imageId)
BackendDeleteImage ==
    /\ opCount < MaxBackendOps
    /\ \E imageId \in {1, 2}, isInputImage \in BOOLEAN, mimeType \in {Png, Jpeg} :
        /\ files' = IF isInputImage THEN deleteInputImage(files, imageId)
                    ELSE deleteGeneratedImage(files, imageId, mimeType)
        /\ local' = [local EXCEPT !.files =
                        IF isInputImage THEN localDeleteInputImage(@, imageId)
                        ELSE localDeleteGeneratedImage(@, imageId)]
        /\ call' = BackendCall("deleteImage", imageId, TRUE, TRUE)
    /\ UNCHANGED <<db, now>>
    /\ BackendUnchanged

NextBackends ==
    \/ BackendSaveThread
    \/ BackendLoadThreads
    \/ BackendGetThread
    \/ BackendDeleteThread
    \/ BackendSaveImage
    \/ BackendLoadImage
    \/ BackendDeleteImage

SpecBackends == InitBackends /\ [][NextBackends]_vars

-----------------------------------------------------------------------------
(* SpecApp: the chat component (components/Generator.tsx, ChatInterface).  *)
(* A handler invocation runs up to its next await in one step; between two *)
(* steps of one invocation any other invocation or user event may run.     *)

\* handler invocations in one run
MaxHandlers == 2
\* threads already persisted when the component mounts
MaxStored == 2

Handlers == 1..MaxHandlers

IdleHandler ==
    [pc |-> "idle", kind |-> "", threadId |-> 0, closure |-> NullThread,
     messageIndex |-> 0, userMessageId |-> 0, toSave |-> NullThread, after |-> "",
     loaded |-> <<>>, stored |-> NullThread, failed |-> FALSE,
     input |-> FALSE, attached |-> <<>>]

\* Generator.tsx 688-696 (loadImageUrl): a data url (1), or undefined (0)
loadImageUrl(fs, imageId, isInputImage, mimeType) ==
    IF loadImageData(fs, imageId, isInputImage, mimeType) # NoFile THEN 1 ELSE 0

\* Generator.tsx 697-721
hydratePart(fs, item) ==
    IF item.type = "image"
    THEN [item EXCEPT !.url = loadImageUrl(fs, item.imageId, item.isInputImage, item.mimeType)]
    ELSE item

hydrateThread(fs, thread) ==
    [thread EXCEPT
        !.messages = [i \in 1..Len(thread.messages) |->
            [thread.messages[i] EXCEPT !.content =
                [j \in 1..Len(thread.messages[i].content) |->
                    hydratePart(fs, thread.messages[i].content[j])]]],
        !.thumbnailUrl = IF thread.thumbnailImageId # 0
                         THEN loadImageUrl(fs, thread.thumbnailImageId, FALSE, Png)
                         ELSE 0]

\* Generator.tsx 1047-1067
getThumbnailFromMessages(msgs, fallbackId, fallbackUrl) ==
    LET generated(m) == {j \in 1..Len(m.content) :
                            m.content[j].type = "image" /\ ~m.content[j].isInputImage}
        hits == {i \in 1..Len(msgs) : generated(msgs[i]) # {}}
    IN IF hits = {}
       THEN [thumbnailImageId |-> fallbackId, thumbnailUrl |-> fallbackUrl]
       ELSE LET i == CHOOSE x \in hits : \A y \in hits : y <= x
                j == CHOOSE x \in generated(msgs[i]) : \A y \in generated(msgs[i]) : x <= y
            IN [thumbnailImageId |-> msgs[i].content[j].imageId,
                thumbnailUrl |-> msgs[i].content[j].url]

\* Generator.tsx 612-630 and 646-674: on mount the stored threads are loaded and
\* the most recent one, if any, becomes the current thread
InitApp ==
    /\ GenIdle
    /\ \E n \in 0..MaxStored :
        /\ db = saveAllThreads(StoredThreads(n), 0)
        /\ files = UNION {AssetsOf(StoredThread(k)) : k \in 1..n}
        /\ currentThread = IF n = 0 THEN NullThread
                           ELSE hydrateThread(files, loadThreads(db)[1])
        /\ nextId = 2 * n + 1
        /\ now = 2 * n + 1
    /\ generations = <<>>
    /\ local = NoLocal
    /\ call = NoCall
    /\ opCount = 0
    /\ generatingThreadIds = {}
    /\ messageInput = FALSE
    /\ attachedImages = <<>>
    /\ error = ""
    /\ keyReset = FALSE
    /\ handler = [h \in Handlers |-> IdleHandler]

\* a new invocation takes the first free slot
Free(h) ==
    /\ handler[h].pc = "idle"
    /\ IF h = 1 THEN TRUE ELSE handler[h - 1].pc # "idle"

\* the user types into the composer
TypeInput ==
    /\ ~messageInput
    /\ messageInput' = TRUE
    /\ UNCHANGED <<genVars, storeVars>>
    /\ UNCHANGED <<currentThread, generatingThreadIds, attachedImages, error, keyReset, handler, nextId, now>>

\* Generator.tsx 814-818
handleNewConversation ==
    /\ currentThread # NullThread \/ messageInput \/ attachedImages # <<>>
    /\ currentThread' = NullThread
    /\ messageInput' = FALSE
    /\ attachedImages' = <<>>
    /\ UNCHANGED <<genVars, storeVars>>
    /\ UNCHANGED <<generatingThreadIds, error, keyReset, handler, nextId, now>>

\* Generator.tsx 911-917: handleSendMessage up to await ensureDirectoryAccess().
\* With nothing typed the handler returns at once and nothing changes.
SendStart(h) ==
    /\ Free(h)
    /\ messageInput \/ attachedImages # <<>>
    /\ LET threadId == IF currentThread # NullThread THEN currentThread.id ELSE nextId
       IN handler' = [handler EXCEPT ![h] =
            [@ EXCEPT !.kind = "send", !.threadId = threadId, !.closure = currentThread,
                      !.input = messageInput, !.attached = attachedImages,
                      !.pc = IF threadId \in generatingThreadIds THEN "rejected" ELSE "access"]]
    /\ nextId' = IF currentThread # NullThread THEN nextId ELSE nextId + 1
    /\ UNCHANGED <<genVars, storeVars>>
    /\ UNCHANGED <<currentThread, generatingThreadIds, messageInput, attachedImages, error, keyReset, now>>

\* Generator.tsx 1169-1182: handleRerunFromMessage up to await
\* ensureDirectoryAccess(), on a user message of the current thread
RerunStart(h) ==
    /\ Free(h)
    /\ currentThread # NullThread
    /\ \E messageIndex \in 1..Len(currentThread.messages) :
        /\ currentThread.messages[messageIndex].role = "user"
        /\ handler' = [handler EXCEPT ![h] =
            [@ EXCEPT !.kind = "rerun", !.threadId = currentThread.id,
                      !.closure = currentThread, !.messageIndex = messageIndex,
                      !.pc = IF currentThread.id \in generatingThreadIds
                             THEN "rejected" ELSE "access"]]
    /\ UNCHANGED <<genVars, storeVars>>
    /\ UNCHANGED <<currentThread, generatingThreadIds, messageInput, attachedImages, error, keyReset,
                   nextId, now>>

\* Generator.tsx 1192-1216: the thread cut back to the message that is rerun
rerunBaseThread(thread, messageIndex, clock) ==
    LET truncatedMessages == SubSeq(thread.messages, 1, messageIndex)
        thumb == getThumbnailFromMessages(truncatedMessages,
                                          thread.thumbnailImageId, thread.thumbnailUrl)
    IN [thread EXCEPT !.messages = truncatedMessages, !.updatedAt = clock,
                      !.thumbnailImageId = thumb.thumbnailImageId,
                      !.thumbnailUrl = thumb.thumbnailUrl]

\* Generator.tsx 917-926 and 1182-1218: ensureDirectoryAccess() has answered.
\* Without access the handler reports it and returns; with access the thread id
\* joins generatingThreadIds and the handler runs to its next await:
\* buildUserMessage() in a send, the load of persistThread(baseThread) in a rerun.
Access(h) ==
    /\ handler[h].pc = "access"
    /\ handler[h].kind # "fork"
    /\ \E hasAccess \in BOOLEAN :
        IF ~hasAccess
        THEN /\ error' = "Please select a save folder to continue."
             /\ handler' = [handler EXCEPT ![h] = [@ EXCEPT !.pc = "done"]]
             /\ UNCHANGED <<generatingThreadIds, now>>
        ELSE /\ generatingThreadIds' = generatingThreadIds \cup {handler[h].threadId}
             /\ error' = ""
             /\ IF handler[h].kind = "send"
                THEN /\ handler' = [handler EXCEPT ![h] = [@ EXCEPT !.pc = "build"]]
                     /\ now' = now
                ELSE /\ handler' = [handler EXCEPT ![h] =
                        [@ EXCEPT !.toSave = rerunBaseThread(handler[h].closure,
                                                             handler[h].messageIndex, now),
                                  !.after = "generate", !.pc = "load"]]
                     /\ now' = now + 1
    /\ UNCHANGED <<genVars, storeVars>>
    /\ UNCHANGED <<currentThread, messageInput, attachedImages, keyReset, nextId>>

\* Generator.tsx 860-895: the text typed (or only the image settings), then one
\* input image part per attached file, saved under a fresh id
buildUserMessage(input, attached, firstId) ==
    Message(firstId + Len(attached), "user",
        <<TextPart(IF input THEN "prompt" ELSE "settings", FALSE, "")>>
        \o [i \in 1..Len(attached) |->
                ImagePart(firstId + i - 1, attached[i].type, TRUE, 1, "")])

\* Generator.tsx 926-982: buildUserMessage() has answered; the working thread is
\* shown, the composer is cleared and the provider is called
Build(h) ==
    /\ handler[h].pc = "build"
    /\ LET userMessage == buildUserMessage(handler[h].input, handler[h].attached, nextId)
           baseThread == IF handler[h].closure # NullThread THEN handler[h].closure
                         ELSE Thread(handler[h].threadId, <<>>, 0, 0, now)
           workingThread == [baseThread EXCEPT !.messages = Append(@, userMessage)]
       IN /\ currentThread' = IF currentThread = NullThread THEN workingThread
                              ELSE IF currentThread.id = workingThread.id THEN workingThread
                              ELSE currentThread
          /\ handler' = [handler EXCEPT ![h] =
                [@ EXCEPT !.userMessageId = userMessage.id, !.toSave = workingThread,
                          !.pc = "generate"]]
    /\ files' = files \cup {inputImagePath(nextId + i - 1) : i \in 1..Len(handler[h].attached)}
    /\ messageInput' = FALSE
    /\ attachedImages' = <<>>
    /\ nextId' = nextId + Len(handler[h].attached) + 1
    /\ now' = now + 1
    /\ UNCHANGED genVars
    /\ UNCHANGED <<db, generations, local, call, opCount>>
    /\ UNCHANGED <<generatingThreadIds, error, keyReset>>

\* Generator.tsx 1030-1043 and 1288-1301: the finally block up to its await
afterFinally(h) == IF handler[h].closure.id = handler[h].threadId THEN "reload" ELSE "done"

\* Generator.tsx 982 and 1227: generateImageFromConversation() has returned the
\* content parts or thrown (catch and finally, 1022-1043 and 1280-1301)
Generate(h) ==
    /\ handler[h].pc = "generate"
    /\ \E outcome \in {"image", "APIKeyError", "Error"} :
        IF outcome = "image"
        THEN /\ handler' = [handler EXCEPT ![h] = [@ EXCEPT !.pc = "saveImage"]]
             /\ UNCHANGED <<generatingThreadIds, error, keyReset>>
        ELSE /\ keyReset' = (keyReset \/ outcome = "APIKeyError")
             /\ error' = IF outcome = "APIKeyError" THEN error
                         ELSE "Failed to generate image."
             /\ generatingThreadIds' = generatingThreadIds \ {handler[h].threadId}
             /\ handler' = [handler EXCEPT ![h] =
                    [@ EXCEPT !.failed = TRUE, !.pc = afterFinally(h)]]
    /\ UNCHANGED <<genVars, storeVars>>
    /\ UNCHANGED <<currentThread, messageInput, attachedImages, nextId, now>>

\* Generator.tsx 984-1020 and 1232-1277: the generated image is saved, the
\* assistant message is appended and persistThread(updatedThread) starts
SaveImage(h) ==
    /\ handler[h].pc = "saveImage"
    /\ LET imageId == nextId
           assistantMessage == Message(nextId + 1, "assistant",
                                       <<ImagePart(imageId, Png, FALSE, 1, "")>>)
           workingThread == handler[h].toSave
           updatedMessages == Append(workingThread.messages, assistantMessage)
           thumb == getThumbnailFromMessages(updatedMessages,
                        workingThread.thumbnailImageId, workingThread.thumbnailUrl)
           updatedThread ==
               IF handler[h].kind = "send"
               THEN [workingThread EXCEPT
                        !.messages = updatedMessages, !.updatedAt = now,
                        !.thumbnailImageId = IF @ # 0 THEN @ ELSE imageId,
                        !.thumbnailUrl = IF @ # 0 THEN @ ELSE 1]
               ELSE [workingThread EXCEPT
                        !.messages = updatedMessages, !.updatedAt = now,
                        !.thumbnailImageId = thumb.thumbnailImageId,
                        !.thumbnailUrl = thumb.thumbnailUrl]
       IN /\ files' = saveImage(files, imageId, Png)
          /\ handler' = [handler EXCEPT ![h] =
                [@ EXCEPT !.toSave = updatedThread, !.after = "finally", !.pc = "load"]]
    /\ nextId' = nextId + 2
    /\ now' = now + 1
    /\ UNCHANGED genVars
    /\ UNCHANGED <<db, generations, local, call, opCount>>
    /\ UNCHANGED <<currentThread, generatingThreadIds, messageInput, attachedImages, error, keyReset>>

\* conversationStorage.ts 47: saveThread has loaded the collection
Load(h) ==
    /\ handler[h].pc = "load"
    /\ handler' = [handler EXCEPT ![h] = [@ EXCEPT !.loaded = loadThreads(db), !.pc = "post"]]
    /\ UNCHANGED <<genVars, storeVars>>
    /\ UNCHANGED <<currentThread, generatingThreadIds, messageInput, attachedImages, error, keyReset,
                   nextId, now>>

\* conversationStorage.ts 48-59: saveThread replaces the collection; then
\* Generator.tsx 1021 or 1218 (setCurrentThread), and the provider call of a
\* rerun or the finally block
Post(h) ==
    /\ handler[h].pc = "post"
    /\ handler[h].after # "fork"
    /\ db' = saveThread(handler[h].loaded, handler[h].toSave, now)
    /\ call' = [op |-> "save", thread |-> handler[h].toSave, id |-> handler[h].toSave.id]
    /\ opCount' = opCount + 1
    /\ currentThread' = IF currentThread.id = handler[h].toSave.id
                        THEN handler[h].toSave ELSE currentThread
    /\ IF handler[h].after = "generate"
       THEN /\ handler' = [handler EXCEPT ![h] = [@ EXCEPT !.pc = "generate"]]
            /\ UNCHANGED generatingThreadIds
       ELSE /\ handler' = [handler EXCEPT ![h] = [@ EXCEPT !.pc = afterFinally(h)]]
            /\ generatingThreadIds' = generatingThreadIds \ {handler[h].threadId}
    /\ UNCHANGED genVars
    /\ UNCHANGED <<files, generations, local, messageInput, attachedImages, error, keyReset, nextId, now>>

\* Generator.tsx 1037-1038 and 1294-1295: getThread(threadId) has answered
Reload(h) ==
    /\ handler[h].pc = "reload"
    /\ LET stored == getThread(db, handler[h].threadId)
       IN handler' = [handler EXCEPT ![h] =
            [@ EXCEPT !.stored = stored,
                      !.pc = IF stored # NullThread THEN "hydrate" ELSE "done"]]
    /\ UNCHANGED <<genVars, storeVars>>
    /\ UNCHANGED <<currentThread, generatingThreadIds, messageInput, attachedImages, error, keyReset,
                   nextId, now>>

\* Generator.tsx 1039-1041 and 1296-1298: the stored thread replaces the current one
Hydrate(h) ==
    /\ handler[h].pc = "hydrate"
    /\ currentThread' = hydrateThread(files, handler[h].stored)
    /\ handler' = [handler EXCEPT ![h] = [@ EXCEPT !.pc = "done"]]
    /\ UNCHANGED <<genVars, storeVars>>
    /\ UNCHANGED <<generatingThreadIds, messageInput, attachedImages, error, keyReset, nextId, now>>

\* Generator.tsx 1069-1070: handleForkThread up to await ensureDirectoryAccess(),
\* on any message of the current thread
ForkStart(h) ==
    /\ Free(h)
    /\ currentThread # NullThread
    /\ \E messageIndex \in 1..Len(currentThread.messages) :
        handler' = [handler EXCEPT ![h] =
            [@ EXCEPT !.kind = "fork", !.closure = currentThread,
                      !.messageIndex = messageIndex, !.pc = "access"]]
    /\ UNCHANGED <<genVars, storeVars>>
    /\ UNCHANGED <<currentThread, generatingThreadIds, messageInput, attachedImages, error,
                   keyReset, nextId, now>>

\* Generator.tsx 1083-1085: a fork from the very first message, a user message,
\* is "Edit & Resend" (messageIndex counts from 1 here)
forkIsEditMutant(thread, messageIndex) == FALSE
forkIsEdit(thread, messageIndex) ==
    messageIndex = 1 /\ thread.messages[1].role = "user"

\* Generator.tsx 1096-1125: the images of the message as Files; an image with
\* no data url is loaded, and left out when nothing is found
forkFiles(fs, message) ==
    LET imageItems == SelectSeq(message.content, LAMBDA c : c.type = "image")
        loaded == SelectSeq(imageItems, LAMBDA c :
                      c.url # 0 \/ loadImageData(fs, c.imageId, c.isInputImage, c.mimeType) # NoFile)
    IN [i \in 1..Len(loaded) |-> [name |-> loaded[i].imageId, type |-> loaded[i].mimeType]]

\* Generator.tsx 1133-1160: the thread that a fork at a later message persists
forkedThread(thread, messageIndex, id, clock) ==
    LET forkMessages == SubSeq(thread.messages, 1, messageIndex)
        thumb == getThumbnailFromMessages(forkMessages,
                                          thread.thumbnailImageId, thread.thumbnailUrl)
    IN Thread(id, forkMessages, thumb.thumbnailImageId, thumb.thumbnailUrl, clock)

\* Generator.tsx 1072-1162: ensureDirectoryAccess() has answered.  Without
\* access the handler reports it and returns.  A fork from the first message
\* fills the composer and leaves the thread; any other fork builds the new
\* thread and starts persistThread(forkedThread).
ForkAccess(h) ==
    /\ handler[h].pc = "access"
    /\ handler[h].kind = "fork"
    /\ \E hasAccess \in BOOLEAN :
        IF ~hasAccess
        THEN /\ error' = "Please select a save folder to continue."
             /\ handler' = [handler EXCEPT ![h] = [@ EXCEPT !.pc = "done"]]
             /\ UNCHANGED <<currentThread, messageInput, attachedImages, nextId, now>>
        ELSE IF forkIsEdit(handler[h].closure, handler[h].messageIndex)
        THEN /\ messageInput' =
                    (\E i \in 1..Len(handler[h].closure.messages[1].content) :
                        handler[h].closure.messages[1].content[i].type = "text")
             /\ attachedImages' = forkFiles(files, handler[h].closure.messages[1])
             /\ currentThread' = NullThread
             /\ handler' = [handler EXCEPT ![h] = [@ EXCEPT !.after = "edit", !.pc = "done"]]
             /\ UNCHANGED <<error, nextId, now>>
        ELSE /\ handler' = [handler EXCEPT ![h] =
                    [@ EXCEPT !.toSave = forkedThread(handler[h].closure,
                                                      handler[h].messageIndex, nextId, now),
                              !.after = "fork", !.pc = "load"]]
             /\ nextId' = nextId + 1
             /\ now' = now + 1
             /\ UNCHANGED <<currentThread, messageInput, attachedImages, error>>
    /\ UNCHANGED <<genVars, storeVars>>
    /\ UNCHANGED <<generatingThreadIds, keyReset>>

\* conversationStorage.ts 48-59 and Generator.tsx 1162-1166: saveThread replaces
\* the collection; the forked thread becomes the current one, the composer is
\* cleared
ForkPost(h) ==
    /\ handler[h].pc = "post"
    /\ handler[h].after = "fork"
    /\ db' = saveThread(handler[h].loaded, handler[h].toSave, now)
    /\ call' = [op |-> "save", thread |-> handler[h].toSave, id |-> handler[h].toSave.id]
    /\ opCount' = opCount + 1
    /\ currentThread' = handler[h].toSave
    /\ messageInput' = FALSE
    /\ attachedImages' = <<>>
    /\ handler' = [handler EXCEPT ![h] = [@ EXCEPT !.pc = "done"]]
    /\ UNCHANGED genVars
    /\ UNCHANGED <<files, generations, local, generatingThreadIds, error, keyReset, nextId, now>>

NextApp ==
    \/ TypeInput
    \/ handleNewConversation
    \/ \E h \in Handlers : SendStart(h)
    \/ \E h \in Handlers : RerunStart(h)
    \/ \E h \in Handlers : Access(h)
    \/ \E h \in Handlers : Build(h)
    \/ \E h \in Handlers : Generate(h)
    \/ \E h \in Handlers : SaveImage(h)
    \/ \E h \in Handlers : Load(h)
    \/ \E h \in Handlers : Post(h)
    \/ \E h \in Handlers : Reload(h)
    \/ \E h \in Handlers : Hydrate(h)
    \/ \E h \in Handlers : ForkStart(h)
    \/ \E h \in Handlers : ForkAccess(h)
    \/ \E h \in Handlers : ForkPost(h)

SpecApp == InitApp /\ [][NextApp]_vars

-----------------------------------------------------------------------------
(* SpecSession: the chat component with the sidebar in use.  The actions   *)
(* of SpecApp, and besides them the selection and the deletion of a        *)
(* persisted thread and the failure of a storage call of a send or rerun.  *)

\* ids of the persisted threads
StoredIds == {loadThreads(db)[i].id : i \in 1..Len(loadThreads(db))}

\* Generator.tsx 820-839: handleSelectThread up to await hydrateThread(thread).
\* Selecting the current thread returns at once.  The thread is the sidebar's
\* copy, the record last persisted.  selectionSeqRef is advanced, so a
\* selection still hydrating is superseded.
SelectStart(h) ==
    /\ Free(h)
    /\ \E threadId \in StoredIds :
        /\ currentThread.id # threadId
        /\ handler' = [g \in Handlers |->
              IF g = h
              THEN [handler[g] EXCEPT !.kind = "select", !.threadId = threadId,
                                      !.stored = getThread(db, threadId),
                                      !.pc = "selecting"]
              ELSE IF handler[g].kind = "select" /\ handler[g].pc = "selecting"
              THEN [handler[g] EXCEPT !.failed = TRUE]
              ELSE handler[g]]
    /\ error' = ""
    /\ UNCHANGED <<genVars, storeVars>>
    /\ UNCHANGED <<currentThread, generatingThreadIds, messageInput, attachedImages, keyReset,
                   nextId, now>>

\* Generator.tsx 839-844: hydrateThread has answered; the thread is shown
\* unless another selection has started since
SelectFinish(h) ==
    /\ handler[h].pc = "selecting"
    /\ currentThread' = IF handler[h].failed THEN currentThread
                        ELSE hydrateThread(files, handler[h].stored)
    /\ handler' = [handler EXCEPT ![h] = [@ EXCEPT !.pc = "done"]]
    /\ UNCHANGED <<genVars, storeVars>>
    /\ UNCHANGED <<generatingThreadIds, messageInput, attachedImages, error, keyReset, nextId, now>>

\* Generator.tsx 852-853 and conversationStorage.ts 75-77: handleDeleteThread
\* up to the load of the collection in deleteThread
DeleteStart(h) ==
    /\ Free(h)
    /\ \E threadId \in StoredIds :
        handler' = [handler EXCEPT ![h] =
            [@ EXCEPT !.kind = "delete", !.threadId = threadId, !.closure = currentThread,
                      !.pc = "deleteLoad"]]
    /\ UNCHANGED <<genVars, storeVars>>
    /\ UNCHANGED <<currentThread, generatingThreadIds, messageInput, attachedImages, error,
                   keyReset, nextId, now>>

\* conversationStorage.ts 77: deleteThread has loaded the collection
DeleteLoad(h) ==
    /\ handler[h].pc = "deleteLoad"
    /\ handler' = [handler EXCEPT ![h] =
            [@ EXCEPT !.loaded = loadThreads(db), !.pc = "deletePost"]]
    /\ UNCHANGED <<genVars, storeVars>>
    /\ UNCHANGED <<currentThread, generatingThreadIds, messageInput, attachedImages, error,
                   keyReset, nextId, now>>

\* conversationStorage.ts 78-85 and Generator.tsx 854-857: the assets of the
\* thread are deleted, the collection without it is saved, and the thread
\* leaves the screen if it was the current one when the handler started
DeletePost(h) ==
    /\ handler[h].pc = "deletePost"
    /\ LET threads == handler[h].loaded
           i == findIndex(threads, handler[h].threadId)
       IN /\ files' = IF i # 0 THEN deleteThreadAssets(files, threads[i]) ELSE files
          /\ db' = saveAllThreads(filtered(threads, handler[h].threadId), now)
    /\ call' = [op |-> "delete", thread |-> NullThread, id |-> handler[h].threadId]
    /\ opCount' = opCount + 1
    /\ currentThread' = IF handler[h].closure.id = handler[h].threadId
                        THEN NullThread ELSE currentThread
    /\ handler' = [handler EXCEPT ![h] = [@ EXCEPT !.pc = "done"]]
    /\ UNCHANGED genVars
    /\ UNCHANGED <<generations, local, generatingThreadIds, messageInput, attachedImages, error,
                   keyReset, nextId, now>>

\* the calls of a send or rerun that reach the storage inside the try block:
\* saveInputImage (Generator.tsx 878), saveImage (988, 1238) and the two steps
\* of saveThread in persistThread (1020, 1219, 1278)
StorageCallPending(h) ==
    /\ handler[h].kind \in {"send", "rerun"}
    /\ \/ handler[h].pc = "build" /\ handler[h].attached # <<>>
       \/ handler[h].pc \in {"saveImage", "load", "post"}

StorageFailsMutant(h) ==
    /\ StorageCallPending(h)
    /\ error' = "Failed to save"
    /\ handler' = [handler EXCEPT ![h] = [@ EXCEPT !.failed = TRUE, !.pc = afterFinally(h)]]
    /\ UNCHANGED <<genVars, storeVars>>
    /\ UNCHANGED <<currentThread, generatingThreadIds, messageInput, attachedImages, keyReset,
                   nextId, now>>

\* Generator.tsx 1022-1043 and 1280-1301: the storage call throws; the catch
\* block shows the error and the finally block runs up to its await
StorageFails(h) ==
    /\ StorageCallPending(h)
    /\ error' = "Failed to save"
    /\ generatingThreadIds' = generatingThreadIds \ {handler[h].threadId}
    /\ handler' = [handler EXCEPT ![h] = [@ EXCEPT !.failed = TRUE, !.pc = afterFinally(h)]]
    /\ UNCHANGED <<genVars, storeVars>>
    /\ UNCHANGED <<currentThread, messageInput, attachedImages, keyReset, nextId, now>>

InitSession == InitApp

NextSession ==
    \/ TypeInput
    \/ handleNewConversation
    \/ \E h \in Handlers : SendStart(h)
    \/ \E h \in Handlers : RerunStart(h)
    \/ \E h \in Handlers : Access(h)
    \/ \E h \in Handlers : Build(h)
    \/ \E h \in Handlers : Generate(h)
    \/ \E h \in Handlers : SaveImage(h)
    \/ \E h \in Handlers : Load(h)
    \/ \E h \in Handlers : Post(h)
    \/ \E h \in Handlers : Reload(h)
    \/ \E h \in Handlers : Hydrate(h)
    \/ \E h \in Handlers : ForkStart(h)
    \/ \E h \in Handlers : ForkAccess(h)
    \/ \E h \in Handlers : ForkPost(h)
    \/ \E h \in Handlers : SelectStart(h)
    \/ \E h \in Handlers : SelectFinish(h)
    \/ \E h \in Handlers : DeleteStart(h)
    \/ \E h \in Handlers : DeleteLoad(h)
    \/ \E h \in Handlers : DeletePost(h)
    \/ \E h \in Handlers : StorageFails(h)

SpecSession == InitSession /\ [][NextSession]_vars

\* SpecSwitch: one send or rerun, and the user switching threads meanwhile
NextSwitch ==
    \/ TypeInput
    \/ handleNewConversation
    \/ SendStart(1)
    \/ RerunStart(1)
    \/ Access(1)
    \/ Build(1)
    \/ Generate(1)
    \/ SaveImage(1)
    \/ Load(1)
    \/ Post(1)
    \/ Reload(1)
    \/ Hydrate(1)
    \/ StorageFails(1)
    \/ SelectStart(2)
    \/ SelectFinish(2)

SpecSwitch == InitSession /\ [][NextSwitch]_vars

\* the steps that resume the send or rerun from an await
Resume ==
    \/ Access(1)
    \/ Build(1)
    \/ Generate(1)
    \/ SaveImage(1)
    \/ Load(1)
    \/ Post(1)
    \/ Reload(1)
    \/ Hydrate(1)
    \/ StorageFails(1)

\* the send or rerun is suspended at an await: exactly the states in which a
\* Resume step is possible (ENABLED <<Resume>>_vars)
Pending ==
    handler[1].pc \in {"access", "build", "generate", "saveImage", "load", "post",
                       "reload", "hydrate"}

\* every promise the send or rerun awaits settles, and the handler then runs
\* on: weak fairness of Resume, WF_vars(Resume), with its enabling condition
\* written as Pending
SpecSwitchFair == SpecSwitch /\ ([]<>(~Pending) \/ []<><<Resume>>_vars)

-----------------------------------------------------------------------------
(* SpecGen: one invocation of generateImageFromConversation                *)

InitGen ==
    /\ GenStart
    /\ AppIdle
    /\ db = <<>>
    /\ files = {}
    /\ generations = <<>>
    /\ local = NoLocal
    /\ call = NoCall
    /\ opCount = 0
    /\ nextId = 1
    /\ now = 1

SpecGen == InitGen /\ [][NextGen]_vars

\* SpecResp: generateImageFromConversation against a provider that answers
\* every call with a response
InitResp ==
    /\ messages \in {[i \in 1..n |-> i] : n \in 0..MaxMessages}
    /\ apiKey \in BOOLEAN
    /\ provider = [mode |-> "respond", K |-> 0]
    /\ calls = <<>>
    /\ genPc = "first"
    /\ result = Success(0)
    /\ AppIdle
    /\ db = <<>>
    /\ files = {}
    /\ generations = <<>>
    /\ local = NoLocal
    /\ call = NoCall
    /\ opCount = 0
    /\ nextId = 1
    /\ now = 1

SpecResp == InitResp /\ [][NextGen]_vars

-----------------------------------------------------------------------------
(* Properties of generateImageFromConversation (SpecGen)                   *)

\* the messages of the provider's context-overflow errors
OverflowMessages == {MsgTokenLimit, MsgContextLong}

C2_RetryKeepsNewestCeilHalf ==
    IF Len(calls) = 2
    THEN LET n == Len(messages)
         IN /\ calls[1].history = messages
            /\ Len(calls[2].history) = n - (n \div 2)
            /\ calls[2].history = [i \in 1..(n - (n \div 2)) |-> messages[i + (n \div 2)]]
    ELSE TRUE

\* C2 (case reached): a retry of a history of odd length
C2_OddRetry ==
    /\ Len(calls) = 2
    /\ Len(messages) % 2 = 1
    /\ Len(calls[2].history) = (Len(messages) + 1) \div 2

\* C2 (as stated): the history resent on the retry is the original history with
\* its oldest ceil(n/2) messages dropped, a suffix of length n - ceil(n/2).
C2_RetryDropsOldestCeilHalf ==
    IF Len(calls) = 2
    THEN LET n == Len(messages)
             dropped == (n + 1) \div 2
         IN /\ Len(calls[2].history) = n - dropped
            /\ calls[2].history = [i \in 1..(n - dropped) |-> messages[i + dropped]]
    ELSE TRUE

\* C3: against a provider that raises a context-overflow error exactly when it
\* receives more than K messages (K >= 1), a send of 2K messages makes exactly
\* two provider calls, the second with exactly the newest K messages, and
\* succeeds; a send whose halved history still has more than K messages makes
\* exactly two provider calls and throws the overflow error of the second.
C3_Bisection ==
    IF provider.mode = "limit" /\ apiKey /\ genPc = "done"
    THEN LET K == provider.K
             n == Len(messages)
         IN /\ (K >= 1 /\ n = 2 * K) =>
                /\ Len(calls) = 2
                /\ calls[2].history = [i \in 1..K |-> messages[K + i]]
                /\ result = Success(2)
            /\ (n - (n \div 2) > K) =>
                /\ Len(calls) = 2
                /\ ~result.ok
                /\ result.message \in OverflowMessages
                /\ result.call = 2
    ELSE TRUE

\* C3 (case reached): 2K messages, two calls, the second succeeded
C3_TwoKSucceeds ==
    /\ provider.mode = "limit"
    /\ provider.K >= 1
    /\ Len(messages) = 2 * provider.K
    /\ genPc = "done"
    /\ Len(calls) = 2
    /\ result.ok

-----------------------------------------------------------------------------
(* Properties of the chat component (SpecApp)                              *)

\* C4 (as stated): at no time are two provider calls in flight for the same
\* thread id; of two requests on one thread id only one reaches the provider.
C4_OneGenerationPerThread ==
    \A h1 \in Handlers, h2 \in Handlers :
        (h1 # h2 /\ handler[h1].pc = "generate" /\ handler[h2].pc = "generate")
            => handler[h1].threadId # handler[h2].threadId

\* a send that was accepted, succeeded and has returned
Completed(h) ==
    /\ handler[h].kind = "send"
    /\ handler[h].pc = "done"
    /\ handler[h].after = "finally"
    /\ ~handler[h].failed

\* C5 (as stated): when sends on two distinct threads have both succeeded and
\* finished, the persisted collection holds both threads, each with its new
\* assistant message.
C5_BothThreadsPersisted ==
    \A h1 \in Handlers, h2 \in Handlers :
        (h1 # h2 /\ Completed(h1) /\ Completed(h2)
            /\ handler[h1].threadId # handler[h2].threadId)
        => \E i \in 1..Len(db) :
              /\ db[i].id = handler[h1].threadId
              /\ db[i].data.messages # <<>>
              /\ db[i].data.messages[Len(db[i].data.messages)].id
                    = handler[h1].toSave.messages[Len(handler[h1].toSave.messages)].id

\* C6 (as stated): after a send has failed, the thread the user is working on
\* still ends with the user message that was just sent (no other request has
\* touched that thread).
C6_UserMessageKept ==
    \A h \in Handlers :
        (/\ handler[h].kind = "send"
         /\ handler[h].failed
         /\ handler[h].pc = "done"
         /\ currentThread.id = handler[h].threadId
         /\ \A o \in Handlers \ {h} : handler[o].threadId # handler[h].threadId)
        => /\ currentThread.messages # <<>>
           /\ currentThread.messages[Len(currentThread.messages)].id = handler[h].userMessageId

\* C7 (as stated): every saveThread leaves the persisted collection equal to the
\* collection it replaced with the saved thread upserted by id, cut down to
\* the MAX_THREADS entries with the greatest updatedAt.
C7_SaveIsUpsertThenTrim ==
    [][(opCount' # opCount /\ call'.op = "save")
        => /\ db' = saveThread(loadThreads(db), call'.thread, now)
           /\ Len(db') <= MAX_THREADS]_vars

-----------------------------------------------------------------------------
(* Properties of ConversationStorage (SpecStore)                           *)

\* whether no file answers a load of the image in its own namespace
NotFound(fs, content) ==
    loadImageData(fs, content.imageId, content.isInputImage, content.mimeType) = NoFile

\* C8 (as stated): when a save drops a thread from the collection because of
\* the cap, no image referenced by the dropped thread's messages can be loaded
\* any more.
C8_TrimDeletesAssets ==
    [][(opCount' # opCount /\ call'.op = "save")
        => \A i \in 1..Len(db) :
              (\A j \in 1..Len(db') : db'[j].id # db[i].id)
              => \A c \in {ImagePartsOf(db[i].data)[k] :
                              k \in 1..Len(ImagePartsOf(db[i].data))} :
                    NotFound(files', c)]_vars

\* C9 (as stated): after deleteThread(t) the thread is gone and a load of any
\* image id referenced by t's messages finds nothing, in the input and in the
\* generated namespace, with the mimeType the image was stored with.
C9_DeleteRemovesAssets ==
    (call.op = "delete" /\ call.thread # NullThread)
    => /\ getThread(db, call.id) = NullThread
       /\ \A k \in 1..Len(ImagePartsOf(call.thread)) :
            LET c == ImagePartsOf(call.thread)[k]
            IN /\ loadImageData(files, c.imageId, TRUE, c.mimeType) = NoFile
               /\ loadImageData(files, c.imageId, FALSE, c.mimeType) = NoFile

\* the thread with the url of every image part removed and nothing else changed
WithoutUrls(t) ==
    [t EXCEPT !.messages = [i \in 1..Len(t.messages) |->
        [t.messages[i] EXCEPT !.content = [j \in 1..Len(t.messages[i].content) |->
            [t.messages[i].content[j] EXCEPT !.url = 0]]]]]

\* C10 (as the code has it): saveThread(t) followed by getThread(t.id) returns
\* null only when the cap has cut t, the collection then holding MAX_THREADS
\* other threads none of which is older than t; otherwise it returns t with its
\* messages and their content parts in the same order and every field
\* unchanged but the url of the image parts, which is removed.
C10_SaveThenGet ==
    IF call.op = "save"
    THEN LET t == call.thread
             got == getThread(db, t.id)
         IN IF got = NullThread
            THEN Cardinality({i \in 1..Len(db) : db[i].updatedAt >= t.updatedAt}) >= MAX_THREADS
            ELSE got = WithoutUrls(t)
    ELSE TRUE

\* C10 (case reached): a thread with an input image, a signed thought and a
\* generated jpeg was saved into a full collection and read back
C10_SavedAndRead ==
    /\ call.op = "save"
    /\ Len(db) = MAX_THREADS
    /\ Len(call.thread.messages) >= 2
    /\ call.thread.messages[2].content[1].thoughtSignature = "sig"
    /\ getThread(db, call.id) = WithoutUrls(call.thread)

\* C10 (as stated): for every thread t, saveThread(t) followed by
\* getThread(t.id) returns t with only the url of the image parts removed.
C10_SaveThenGetAlways ==
    IF call.op = "save"
    THEN getThread(db, call.id) = WithoutUrls(call.thread)
    ELSE TRUE

\* the patterns of the provider's invalid-key and entity-not-found errors
isKeyError(err) ==
    \/ includes(err.message, MsgEntityNotFound)
    \/ includes(err.message, MsgKeyInvalid)

\* C19 (as stated): a provider error of a conversation call whose message
\* matches the invalid-key or the entity-not-found pattern is not retried and
\* reaches the caller as an APIKeyError, on which the chat component asks for
\* the key again.
C19_KeyErrorIsAPIKeyError ==
    \A i \in 1..Len(calls) :
        (~calls[i].outcome.ok /\ isKeyError(calls[i].outcome)) =>
            /\ genPc = "done"
            /\ Len(calls) = i
            /\ result.name = "APIKeyError"

-----------------------------------------------------------------------------
(* Further properties of the chat component (SpecApp)                      *)

\* the imageIds of the non-input image parts of a thread's messages
GeneratedImageIds(t) ==
    {ImagePartsOf(t)[k].imageId :
        k \in {x \in 1..Len(ImagePartsOf(t)) : ~ImagePartsOf(t)[x].isInputImage}}

\* C11 (as stated): in every persisted thread thumbnailImageId is unset or is
\* the imageId of a non-input image part of that thread's own messages.
C11_ThumbnailIsOwnImage ==
    \A i \in 1..Len(db) :
        \/ db[i].data.thumbnailImageId = 0
        \/ db[i].data.thumbnailImageId \in GeneratedImageIds(db[i].data)

\* the image parts of a message as the Files the composer would hold
ImagesAsFiles(message) ==
    LET items == SelectSeq(message.content, LAMBDA c : c.type = "image")
    IN [i \in 1..Len(items) |-> [name |-> items[i].imageId, type |-> items[i].mimeType]]

\* C12: no step of a fork from the first message writes to the thread store or
\* to the asset files; when it returns, the text and the images of the first
\* message are in the composer of a fresh, empty conversation.
C12_ForkFirstWritesNothing ==
    [][\A h \in Handlers :
        (handler[h].kind = "fork" /\ handler[h].messageIndex = 1 /\ handler'[h] # handler[h])
        => /\ db' = db
           /\ files' = files
           /\ opCount' = opCount
           /\ (handler'[h].pc = "done" /\ handler'[h].after = "edit")
              => /\ currentThread' = NullThread
                 /\ messageInput'
                 /\ attachedImages' = ImagesAsFiles(handler[h].closure.messages[1])]_vars

\* C12 (case reached): a fork from a first message that holds an image has
\* returned
C12_ForkedFromFirst ==
    \E h \in Handlers :
        /\ handler[h].kind = "fork"
        /\ handler[h].messageIndex = 1
        /\ handler[h].after = "edit"
        /\ handler[h].pc = "done"
        /\ currentThread = NullThread
        /\ attachedImages # <<>>

\* C13 (as stated): the save of a fork from a later message adds exactly one
\* thread to the persisted collection, under an id no stored thread has, with
\* a copy of the source's messages up to the forked one in the same order; every
\* thread stored before, the source included, is still stored and unchanged.
C13_ForkAddsOneThread ==
    [][\A h \in Handlers :
        (handler[h].after = "fork" /\ handler[h].pc = "post" /\ handler'[h].pc = "done")
        => LET forked == handler[h].toSave
               source == handler[h].closure
           IN /\ \A i \in 1..Len(db) : db[i].id # forked.id
              /\ Len(db') = Len(db) + 1
              /\ \A i \in 1..Len(db) : \E j \in 1..Len(db') : db'[j] = db[i]
              /\ \E j \in 1..Len(db') :
                    /\ db'[j].id = forked.id
                    /\ db'[j].data.messages =
                         SubSeq(WithoutUrls(source).messages, 1, handler[h].messageIndex)]_vars

\* the messages a rerun keeps, as they are persisted
RerunPrefix(h) ==
    SubSeq(WithoutUrls(handler[h].closure).messages, 1, handler[h].messageIndex)

\* C14 (as stated): a rerun persists the thread cut back to the rerun message
\* before the provider is called; when the provider call fails the persisted
\* thread holds exactly that prefix; when it succeeds the persisted thread
\* holds the prefix and one new assistant message, never the old suffix with it.
C14_RerunPrefixPersisted ==
    [][\A h \in Handlers : handler[h].kind = "rerun" =>
        /\ (handler[h].pc # "generate" /\ handler'[h].pc = "generate")
            => getThread(db', handler[h].threadId).messages = RerunPrefix(h)
        /\ (handler[h].pc = "generate" /\ handler'[h].failed)
            => getThread(db', handler[h].threadId).messages = RerunPrefix(h)
        /\ (handler[h].pc = "post" /\ handler[h].after = "finally" /\ handler'[h].pc # "post")
            => LET stored == getThread(db', handler[h].threadId).messages
               IN /\ Len(stored) = handler[h].messageIndex + 1
                  /\ SubSeq(stored, 1, handler[h].messageIndex) = RerunPrefix(h)
                  /\ stored[Len(stored)].role = "assistant"
                  /\ \A i \in 1..Len(handler[h].closure.messages) :
                        handler[h].closure.messages[i].id # stored[Len(stored)].id]_vars

\* the provider call of handler h has returned an image
Generated(h) == handler[h].pc = "saveImage" \/ handler[h].after = "finally"

\* C15 (as stated): a conversation started in this session has a persisted
\* record only once a generation on it has succeeded; failed sends, forks from
\* the first message and reruns create no record under its id.
C15_NoRecordBeforeSuccess ==
    \A h \in Handlers :
        (/\ handler[h].kind = "send"
         /\ handler[h].closure = NullThread
         /\ \E i \in 1..Len(db) : db[i].id = handler[h].threadId)
        => \E g \in Handlers :
                handler[g].threadId = handler[h].threadId /\ Generated(g)

-----------------------------------------------------------------------------
(* Migration of the legacy generations (SpecStore)                         *)

\* what loadConversations() returns on the table rows: the collection, or null
\* when the request is not answered
conversationsRead(answered, rows) ==
    IF answered THEN loadConversations(rows) ELSE NoConversations

\* C16: migrateOldGenerations is idempotent and does nothing to a collection
\* that carries version '2.0'.  Whatever the stored threads and the legacy
\* list, and whether loadConversations() returns the collection or null, a
\* second run leaves the table as the first run left it; and a run that reads
\* version '2.0' leaves the table as it found it.
C16_MigrationIdempotent ==
    /\ [](\A answered \in BOOLEAN :
            LET once == migrateOldGenerations(conversationsRead(answered, db),
                                              db, generations, now)
                twice == migrateOldGenerations(conversationsRead(answered, once),
                                               once, generations, now)
            IN twice = once)
    /\ [][(call'.op = "migrate" /\ opCount' # opCount
            /\ loadConversations(db).version = "2.0") => db' = db]_vars

\* C16 (witness): migrateOldGenerations has run on a store that holds threads
\* while legacy records exist
C16_MigratedWithLegacy ==
    /\ call.op = "migrate"
    /\ generations # <<>>
    /\ db # <<>>

\* C17 (as stated): when legacy records exist and no thread has been stored
\* yet, migrateOldGenerations leaves one thread per legacy record in the table:
\* a user message with the prompt as its text, then an assistant message with
\* one generated image part carrying the legacy id, the thumbnail set to that
\* id and updatedAt equal to the legacy timestamp.
C17_MigrationCreatesThreads ==
    [][(call'.op = "migrate" /\ opCount = 0 /\ opCount' = 1
            /\ db = <<>> /\ generations # <<>>)
        => /\ Len(db') = Len(generations)
           /\ \A i \in 1..Len(generations) : \E j \in 1..Len(db') :
                LET gen == generations[i]
                    t == db'[j].data
                IN /\ Len(t.messages) = 2
                   /\ t.messages[1].role = "user"
                   /\ Len(t.messages[1].content) = 1
                   /\ t.messages[1].content[1].type = "text"
                   /\ t.messages[1].content[1].text = gen.prompt
                   /\ t.messages[2].role = "assistant"
                   /\ Len(t.messages[2].content) = 1
                   /\ t.messages[2].content[1].type = "image"
                   /\ t.messages[2].content[1].imageId = gen.id
                   /\ ~t.messages[2].content[1].isInputImage
                   /\ t.thumbnailImageId = gen.id
                   /\ t.updatedAt = gen.timestamp]_vars

-----------------------------------------------------------------------------
(* Properties of the provider's responses (SpecResp)                       *)

\* the provider call answered with a blocked response
Blocked(c) == getBlockMessage(c.outcome.response) # NoString

\* C18 (as stated): a blocked response is never retried: the call it answers is
\* the last one of the invocation, and the error thrown to the caller carries
\* the block message.
C18_BlockedNeverRetried ==
    \A i \in 1..Len(calls) :
        Blocked(calls[i]) =>
            /\ genPc # "retry"
            /\ Len(calls) = i
            /\ ~result.ok
            /\ result.message = getBlockMessage(calls[i].outcome.response)

\* the texts of the thought-marked text parts among the content parts, in order
ThoughtTexts(content) ==
    LET thoughts == SelectSeq(content, LAMBDA c : c.type = "text" /\ c.isThought)
    IN [k \in 1..Len(thoughts) |-> thoughts[k].text]

\* C20 (as stated): in the content parts of a successful response every image
\* part carries as thoughtSummaries the texts of the thought-marked text parts
\* before it (flagged as thought or signed), in order, and no other text; and
\* the response held an image part that is not itself marked as a thought.
C20_ThoughtSummaries ==
    \A i \in 1..Len(calls) :
        calls[i].outcome.ok =>
            LET content == calls[i].outcome.content
                parts == calls[i].outcome.response.parts
            IN /\ \E p \in 1..Len(parts) :
                    parts[p].text = "" /\ parts[p].data /\ ~parts[p].thought
               /\ \A k \in 1..Len(content) :
                    content[k].type = "image" =>
                        content[k].thoughtSummaries = ThoughtTexts(SubSeq(content, 1, k - 1))

-----------------------------------------------------------------------------
(* Properties of the asset endpoints (SpecAssets)                          *)

\* The place of a file in the order the spec gives for a load of a generated
\* image with hint mimeType: 1 the name with the hint's extension, 2 to 6 the
\* prefixed names with png, jpg, jpeg, webp, gif, 7 to 11 the same names
\* without prefix, 12 the id itself; 0 for any other file.
ExtPlace(ext) ==
    IF ext = "png" THEN 1 ELSE IF ext = "jpg" THEN 2 ELSE IF ext = "jpeg" THEN 3
    ELSE IF ext = "webp" THEN 4 ELSE IF ext = "gif" THEN 5 ELSE 0

Place(f, imageId, mimeType) ==
    IF f.dir # "" \/ f.id # imageId THEN 0
    ELSE IF f.prefix /\ f.ext = mimeType[2] THEN 1
    ELSE IF f.prefix /\ ExtPlace(f.ext) > 0 THEN 1 + ExtPlace(f.ext)
    ELSE IF ~f.prefix /\ ExtPlace(f.ext) > 0 THEN 6 + ExtPlace(f.ext)
    ELSE IF ~f.prefix /\ f.ext = "" THEN 12
    ELSE 0

\* C21: a load of a generated image returns the existing file that comes
\* first in the order (a) name from the mimeType hint, (b) prefixed names with
\* the common extensions, (c) the same without prefix, (d) the id itself; it
\* is not-found only when no such file exists.
C21_FirstExistingCandidate ==
    (call.op = "loadImage" /\ ~call.isInputImage) =>
        LET places == {f \in files : Place(f, call.id, call.mimeType) > 0}
        IN IF places = {} THEN call.found = NoFile
           ELSE /\ call.found \in places
                /\ \A f \in places :
                        Place(call.found, call.id, call.mimeType)
                            <= Place(f, call.id, call.mimeType)

\* C21 (case reached): a legacy file without prefix is returned while the id
\* itself also exists as a file
C21_LegacyFileFound ==
    /\ call.op = "loadImage"
    /\ ~call.isInputImage
    /\ call.found # NoFile
    /\ ~call.found.prefix
    /\ call.found.ext # ""
    /\ RootFile(FALSE, call.id, "") \in files

\* C22 (as stated): a load in the input namespace returns the file saved as
\* input image under the id, or not-found when there is none, whatever the
\* generated namespace holds under the id; a load in the generated namespace
\* never returns a file of the input namespace.
C22_NamespacesSeparate ==
    call.op = "loadImage" =>
        IF call.isInputImage
        THEN IF inputImagePath(call.id) \in files
             THEN call.found = inputImagePath(call.id)
             ELSE call.found = NoFile
        ELSE call.found = NoFile \/ call.found.dir # "input_images"

-----------------------------------------------------------------------------
(* Properties of the serialised history (SpecFormat)                       *)

\* the image part has bytes that can be read
Resolvable(content, answered) ==
    /\ answered
    /\ loadImageData(files, content.imageId, content.isInputImage, content.mimeType) # NoFile

\* C23 (as stated): the provider call is made whatever happens to the image
\* reads, and the request holds one part for each part of the history, in the
\* same position: a text part with the same text, thought flag and signature;
\* an image part with its data; and one placeholder text for an image whose
\* bytes cannot be resolved, the asset missing or the read failing.
C23_PlaceholderForMissingImage ==
    call.op = "send" =>
        /\ call.sent
        /\ Len(call.request) = Len(call.history)
        /\ \A i \in 1..Len(call.history) :
            LET content == call.history[i].content
                parts == call.request[i].parts
            IN /\ Len(parts) = Len(content)
               /\ \A k \in 1..Len(content) :
                    IF content[k].type = "text"
                    THEN /\ parts[k].text = content[k].text
                         /\ parts[k].thought = content[k].isThought
                         /\ parts[k].thoughtSignature = content[k].thoughtSignature
                         /\ parts[k].inlineData = NoFile
                    ELSE IF Resolvable(content[k], call.answered)
                    THEN /\ parts[k].inlineData # NoFile
                         /\ parts[k].mimeType = content[k].mimeType
                         /\ parts[k].thoughtSignature = content[k].thoughtSignature
                    ELSE /\ parts[k].text = ImageUnavailable
                         /\ parts[k].inlineData = NoFile

-----------------------------------------------------------------------------
(* Properties of the two backends (SpecBackends)                           *)

\* C24 (as stated): after every sequence of calls the two backends have
\* returned the same result to the last call: the same threads in the same
\* order, the same thread or null, an image found by both or by neither.
C24_BackendsEquivalent ==
    call.op # "none" => call.http = call.fsa

-----------------------------------------------------------------------------
(* Properties of the chat component with the sidebar in use (SpecSession,  *)
(* SpecSwitch)                                                             *)

\* a send or rerun whose provider call has answered with content
Answered(h) ==
    /\ handler[h].kind \in {"send", "rerun"}
    /\ handler[h].after = "finally"

\* the handler has left the try block
Finished(h) == handler[h].pc \in {"reload", "hydrate", "done"}

\* the step in which saveThread(updatedThread) of handler h replaces the collection
Persists(h) ==
    /\ Answered(h)
    /\ handler[h].pc = "post"
    /\ Finished(h)'
    /\ ~handler'[h].failed

\* C25: a send or rerun whose provider call has succeeded runs on to the end
\* of its try block whatever thread is shown, and unless a storage call
\* throws it persists the updated record in one step, after which the record
\* read back is the updated thread; an invocation that has finished never
\* persists again.
C25_AcceptedSendPersists ==
    /\ [][\A h \in Handlers :
            /\ Persists(h) =>
                /\ getThread(db', handler[h].threadId) = sanitizeThread(handler[h].toSave)
                /\ opCount' = opCount + 1
            /\ (Answered(h) /\ Finished(h)) => Finished(h)']_vars
    /\ (Answered(1) /\ handler[1].pc = "load") ~> (Answered(1) /\ Finished(1))

\* C25 (witness): a send has persisted its thread while another thread or a
\* new conversation is shown
C25_PersistedWhileAway ==
    \E h \in Handlers :
        /\ Answered(h) /\ Finished(h) /\ ~handler[h].failed
        /\ currentThread.id # handler[h].threadId
        /\ getThread(db, handler[h].threadId) = sanitizeThread(handler[h].toSave)

\* the generated image parts of the persisted threads
PersistedGenerated ==
    UNION {{ImagePartsOf(loadThreads(db)[i])[k] :
                k \in {x \in 1..Len(ImagePartsOf(loadThreads(db)[i])) :
                          ~ImagePartsOf(loadThreads(db)[i])[x].isInputImage}} :
           i \in 1..Len(loadThreads(db))}

\* C26: while one send or rerun runs and nothing is deleted, every generated
\* image that a persisted thread refers to is in the asset files, so the image
\* was written before the record; and when saveImage throws, the handler
\* leaves the try block without a step of saveThread.
C26_ImageBeforeRecord ==
    /\ [](\A item \in PersistedGenerated :
            loadImageData(files, item.imageId, FALSE, item.mimeType) # NoFile)
    /\ [][(handler[1].pc = "saveImage" /\ handler'[1].pc # "saveImage" /\ files' = files)
            => (Finished(1)' /\ handler'[1].failed /\ db' = db)]_vars
    /\ [][db' # db => (files' = files /\ handler[1].pc = "post")]_vars

\* C26 (witness): a send or rerun has persisted a thread whose last message
\* holds the image it generated
C26_GeneratedPersisted ==
    /\ Answered(1) /\ Finished(1) /\ ~handler[1].failed
    /\ \E item \in PersistedGenerated :
        /\ item.imageId = handler[1].toSave.messages[Len(handler[1].toSave.messages)].content[1].imageId
        /\ generatedImagePath(item.imageId, item.mimeType) \in files

\* the send or rerun is between the step that adds its thread id to
\* generatingThreadIds and its finally block
InProgress == handler[1].pc \in {"build", "generate", "saveImage", "load", "post"}

\* C27: a thread id in generatingThreadIds is the id of the send or rerun in
\* progress, the set is empty when none is in progress, and every id in it
\* eventually leaves it, however the send or rerun ends.
C27_GeneratingSetCleared ==
    /\ [](generatingThreadIds = IF InProgress THEN {handler[1].threadId} ELSE {})
    /\ \A id \in 1..(2 * MaxStored + 2) :
            (id \in generatingThreadIds) ~> (id \notin generatingThreadIds)

\* C27 (witness): a send or rerun has ended in a storage call that threw, and
\* the set is empty
C27_ClearedAfterFailure ==
    /\ handler[1].kind \in {"send", "rerun"}
    /\ handler[1].failed
    /\ error = "Failed to save"
    /\ Finished(1)
    /\ generatingThreadIds = {}

\* the image parts of the threads of a collection
ReferencedImages(rows) ==
    UNION {{ImagePartsOf(loadThreads(rows)[i])[k] :
                k \in 1..Len(ImagePartsOf(loadThreads(rows)[i]))} :
           i \in 1..Len(loadThreads(rows))}

\* the image can be loaded from the asset files
Loadable(fs, item) == loadImageData(fs, item.imageId, item.isInputImage, item.mimeType) # NoFile

\* C28 (as stated): the step that completes deleteThread removes no image that
\* a thread still persisted after it refers to: each such image that could be
\* loaded before the step can be loaded after it.
C28_DeleteKeepsSharedAssets ==
    [][\A h \in Handlers :
            (handler[h].pc = "deletePost" /\ handler'[h].pc = "done") =>
                \A item \in ReferencedImages(db') :
                    Loadable(files, item) => Loadable(files', item)]_vars

\* C29 (as stated): once an invocation of handleDeleteThread has completed,
\* the persisted collection holds no thread with the id it deleted.
C29_DeletedStaysAbsent ==
    \A h \in Handlers :
        (handler[h].kind = "delete" /\ handler[h].pc = "done") =>
            getThread(db, handler[h].threadId) = NullThread

\* C30 (as stated): no step of a send or rerun after its provider call has
\* started changes the thread shown, unless the thread shown is the thread of
\* that send or rerun.
C30_CompletionKeepsSelection ==
    [][(/\ handler[1].kind \in {"send", "rerun"}
        /\ handler[1].pc \in {"generate", "saveImage", "load", "post", "reload", "hydrate"}
        /\ handler'[1] # handler[1]
        /\ currentThread.id # handler[1].threadId)
            => currentThread' = currentThread]_vars

=============================================================================
